---- MODULE Spec2Model ----
(***************************************************************************)
(* A model of the Python binding python/binaryview.py: the virtual address *)
(* space (BinaryView), its change notifications, its analysis life cycle   *)
(* and its one-shot analysis completion events.                            *)
(*                                                                         *)
(* The Python methods are thin wrappers around the analysis core (the      *)
(* core.BN... entry points).  Definitions named after a Python method      *)
(* model that method; definitions named BN... model the core entry point   *)
(* the method calls, as the specification describes its contract.          *)
(***************************************************************************)
EXTENDS Integers, Sequences, FiniteSets, TLC

(***************************************************************************)
(* Bounds of the model.                                                    *)
(***************************************************************************)
NumEvents == 2      \* analysis completion events that may be created
MaxFuncs == 1       \* add_function and add_entry_point calls in one behaviour

Events == 1..NumEvents

VARIABLES
    \* ---- analysis core (scheduler) ----
    analysisState,  \* "Initial", "Hold", "Idle", "Disassembling", "Analyzing"
    hold,           \* the scheduler's hold flag
    savedState,     \* the state Hold returns to
    dirty,          \* a function or entry point was added since the last run
    aborted,        \* abort_analysis has ended the analysis
    coreEv,         \* per event, the core's registration:
                    \*   "none", "armed", "queued", "notified", "cancelled"
    nfuncs,         \* number of add_function calls issued
    \* ---- AnalysisCompletionEvent objects (Python) ----
    ipc,            \* __init__: "none", "registered" (line 283 done), "created"
    callback,       \* self.callback: "user" or "empty" (_empty_callback)
    pending,        \* keys of _pending_analysis_completion_events
    npc,            \* _notify: "idle", "n_load", "n_call", "done"
    loaded,         \* the callback object _notify has evaluated and will call
    cpc,            \* cancel(): "idle", "c_core", "c_del"
    \* ---- a thread inside update_analysis_and_wait ----
    wpc,            \* "idle", "waiting", "returned"
    \* ---- history variables ----
    fired,            \* per event, number of invocations of the user callback
    cancelReturned,   \* per event, a cancel() call has returned
    holdReq,          \* argument of the last set_analysis_hold call
    updWhileHeld,     \* an update was requested since hold was enabled
    abortPending,     \* the events that were pending at the last abort_analysis
    addedSince,       \* a function or entry point was added since the last run began
    rerun,            \* an update has restarted the analysis from Idle
    \* ---- storage and metadata of the view (core) ----
    mem,            \* the bytes of the view; address a is mem[a + 1]
    modif,          \* per byte: "Original", "Changed", "Inserted"
    autoVars,       \* auto data variables: address -> type or "None"
    userVars,       \* user data variables: address -> type or "None"
    registered,     \* callback objects registered with the core, in order
    \* ---- BinaryView (Python) ----
    notifications,  \* self._notifications: observer -> callback object, 0 if absent
    nextCb,         \* number of BinaryDataNotificationCallbacks created
    \* ---- the mutating call in progress ----
    mpc,            \* "idle" or "delivering"
    cur,            \* the event being delivered
    dq,             \* callback objects the event is still to be delivered to
    received,       \* callback objects the event has been delivered to
    blocked,        \* the mutating call of a second thread that waits for the core
    \* ---- diagnostics ----
    logged,         \* log_error calls of the wrappers during the current call
    escaped,        \* exceptions that left a wrapper during the current call
    \* ---- history variables ----
    cbLog,          \* per callback object, the data-variable events its observer received
    cbSpan,         \* per callback object, <<events issued at register, at unregister>>
    issued,         \* the data-variable events the core has emitted
    lastOp,         \* the last define or undefine of a data variable
    nops,           \* number of mutating calls issued
    \* ---- a search of the view (find_all_data, find_all_text, find_all_constant) ----
    sform,          \* "none", "sync" (match_callback given) or "stream"
    skind,          \* "data", "text" or "constant"
    total,          \* number of matches in [start, end)
    mret,           \* what the caller's match_callback returns
    produced,       \* number of matches the core has reported
    running,        \* the core's search loop has not stopped
    alive,          \* the background thread of a streaming search is alive
    sreturned,      \* the synchronous call has returned
    cancelled,      \* the caller's progress_func has returned False
    queue,          \* QueueGenerator.results
    gpc,            \* __next__: "out", "n_empty", "n_get", "n_alive", "n_empty2"
    lastNext,       \* outcome of the last __next__: "none", "item", "stop"
    yielded,        \* the matches __next__ has returned, in order
    discarded,      \* the caller has dropped the QueueGenerator
    \* ---- the last read call ----
    rd,             \* its arguments, the exception raised, the bytes returned
    \* ---- a linear scan of the view that skips gaps ----
    nvo,            \* the last call of get_next_valid_offset and its result
    scanning,       \* a scan is in progress
    scanPos,        \* the cursor of the scan
    \* ---- the segments of the view (core) ----
    autoSegs,       \* the auto-defined segments
    userSegs,       \* the user-defined segments
    segOp,          \* the last segment operation
    \* ---- a caller that writes and reads back ----
    wr,             \* the last write call of that caller
    \* ---- the storage backend of the view ----
    optsIn,         \* the backend overrides perform_insert and perform_remove
    \* ---- the types of the view and DataVariable.value ----
    typeTab,        \* type id -> concrete, missing, or the id its type refers to
    vpc,            \* DataVariable.value: "idle", "resolving", "value", "error"
    vstart,         \* self.type of the data variable
    vt,             \* the type _value_helper is called with
    depth,          \* number of nested _value_helper calls
    verr,           \* the exception that ended the call
    \* ---- iteration over the instructions at an address ----
    dform,          \* "tokens" (disassembly_tokens) or "text" (disassembly_text)
    darch,          \* the architecture the generator decodes with
    dpc,            \* the generator: "idle", "ready", "yielded", "done", "error"
    daddr,          \* its local addr
    dsize,          \* its local size
    dyield,         \* what it has yielded, with the address of each instruction
    \* ---- the linear view and a cursor over it ----
    units,          \* the number of lines each unit of the linear view renders
    stopOnArrival,  \* a step that arrives at a boundary reports False
    lpos,           \* the cursor: 0 before the first unit, Len(units) + 1 after the last
    lpc,            \* the caller: "idle", "next", "previous", "returned", "ended"
    lop,            \* the function that is running or has returned
    lres,           \* its local result
    lhit,           \* the step of the cursor reported False
    lfrom,          \* the position of the cursor when the function was called
    iterating,      \* the caller is the iterator of get_linear_disassembly
    lyield,         \* the lines the iterator has yielded
    \* ---- a caller at the API boundary ----
    api,            \* its last call and the exception it raised
    \* ---- tag types and tags ----
    tagTypes,       \* the tag types of the view
    removedTypes,   \* the tag types removed from it, which callers still hold
    tagRefs,        \* the tags at addresses: address, tag type, provenance
    tagOp,          \* the last tag operation
    \* ---- the undo log of the file ----
    uopen,          \* begin_undo_actions was called and not yet committed
    upending,       \* the user mutations recorded since then
    ubase,          \* the user-defined tags when the open group began
    ulog,           \* the committed groups, oldest first
    uredo,          \* the groups undone, the one to redo last
    uop,            \* the last undo operation
    \* ---- a Completer and its caller ----
    ctext,          \* the text the caller completes
    cstate,         \* the state of its last call of complete, -1 before the first
    cmatches,       \* self.matches
    cret,           \* what the last call returned
    ncomputed,      \* how many calls computed the list of matches
    asc,            \* the last call of get_ascii_string_at and its result
    owner,          \* per callback object, the observer it wraps (0: not created)
    torn,           \* __del__ of the view has run
    overwrote,      \* a register_notification call replaced an entry of the map
    bcall,          \* the callback of a custom backend the core is in, with its outcome
    caller,         \* per flow graph, where its caller is in layout_and_wait
    layouter,       \* per flow graph, where the core's layout thread is
    condLock,       \* per flow graph, the holder of the lock of _wait_cond
    layoutComplete  \* per flow graph, what BNIsFlowGraphLayoutComplete returns

coreVars == <<analysisState, hold, savedState, dirty, aborted, coreEv>>
evVars == <<ipc, callback, pending, npc, loaded, cpc>>
histVars == <<fired, cancelReturned, holdReq, updWhileHeld, abortPending, addedSince, rerun>>
analysisVars == <<coreVars, nfuncs, evVars, wpc, histVars>>

storeVars == <<mem, modif, autoVars, userVars, registered>>
deliverVars == <<mpc, cur, dq, received>>
notifyHist == <<cbLog, cbSpan, issued, lastOp, nops>>
notifyVars == <<storeVars, notifications, nextCb, deliverVars, blocked, logged, escaped, notifyHist>>

searchVars == <<sform, skind, total, mret, produced, running, alive, sreturned,
                cancelled, queue, gpc, lastNext, yielded, discarded>>
scanVars == <<nvo, scanning, scanPos>>
segVars == <<autoSegs, userSegs, segOp>>
rwVars == <<wr>>
apiVars == <<api>>
tagVars == <<tagTypes, removedTypes, tagRefs, tagOp>>
undoVars == <<uopen, upending, ubase, ulog, uredo, uop>>
compVars == <<ctext, cstate, cmatches, cret, ncomputed>>
ascVars == <<asc>>
cbVars == <<bcall>>
regVars == <<owner, torn, overwrote>>
fgVars == <<caller, layouter, condLock, layoutComplete>>
typeVars == <<typeTab, vpc, vstart, vt, depth, verr>>
disVars == <<dform, darch, dpc, daddr, dsize, dyield>>
linVars == <<units, stopOnArrival, lpos, lpc, lop, lres, lhit, lfrom, iterating, lyield>>
restVars == <<scanVars, segVars, rwVars, typeVars, disVars, linVars, apiVars, tagVars, undoVars, compVars, ascVars, cbVars, regVars, fgVars, optsIn>>
nonScanRest == <<segVars, rwVars, typeVars, disVars, linVars, apiVars, tagVars, undoVars, compVars, ascVars, cbVars, regVars, fgVars, optsIn>>
nonSegRest == <<scanVars, rwVars, typeVars, disVars, linVars, apiVars, tagVars, undoVars, compVars, ascVars, cbVars, regVars, fgVars, optsIn>>
nonRwRest == <<scanVars, segVars, typeVars, disVars, linVars, apiVars, tagVars, undoVars, compVars, ascVars, cbVars, regVars, fgVars, optsIn>>
nonTypeRest == <<scanVars, segVars, rwVars, disVars, linVars, apiVars, tagVars, undoVars, compVars, ascVars, cbVars, regVars, fgVars, optsIn>>
nonDisRest == <<scanVars, segVars, rwVars, typeVars, linVars, apiVars, tagVars, undoVars, compVars, ascVars, cbVars, regVars, fgVars, optsIn>>
nonLinRest == <<scanVars, segVars, rwVars, typeVars, disVars, apiVars, tagVars, undoVars, compVars, ascVars, cbVars, regVars, fgVars, optsIn>>
nonApiRest == <<scanVars, segVars, rwVars, typeVars, disVars, linVars, tagVars, undoVars, compVars, ascVars, cbVars, regVars, fgVars, optsIn>>
nonTagRest == <<scanVars, segVars, rwVars, typeVars, disVars, linVars, apiVars, undoVars, compVars, ascVars, cbVars, regVars, fgVars, optsIn>>
nonUndoRest == <<scanVars, segVars, rwVars, typeVars, disVars, linVars, apiVars, tagVars, compVars, ascVars, cbVars, regVars, fgVars, optsIn>>
nonCompRest == <<scanVars, segVars, rwVars, typeVars, disVars, linVars, apiVars, tagVars, undoVars, ascVars, cbVars, regVars, fgVars, optsIn>>
nonAscRest == <<scanVars, segVars, rwVars, typeVars, disVars, linVars, apiVars, tagVars, undoVars, compVars, cbVars, regVars, fgVars, optsIn>>
nonCbRest == <<scanVars, segVars, rwVars, typeVars, disVars, linVars, apiVars, tagVars, undoVars, compVars, ascVars, regVars, fgVars, optsIn>>
nonRegRest == <<scanVars, segVars, rwVars, typeVars, disVars, linVars, apiVars, tagVars, undoVars, compVars, ascVars, cbVars, fgVars, optsIn>>
nonFgRest == <<scanVars, segVars, rwVars, typeVars, disVars, linVars, apiVars, tagVars, undoVars, compVars, ascVars, cbVars, regVars, optsIn>>
nonTagUndoRest == <<scanVars, segVars, rwVars, typeVars, disVars, linVars, apiVars, compVars, ascVars, cbVars, regVars, fgVars, optsIn>>
queryVars == <<searchVars, rd, restVars>>

nonAnalysisVars == <<notifyVars, queryVars>>
nonNotifyVars == <<analysisVars, queryVars>>

vars == <<analysisVars, notifyVars, queryVars>>

Running == {"Disassembling", "Analyzing"}

(***************************************************************************)
(* The analysis core.  Each operator constrains all of coreVars.           *)
(***************************************************************************)

\* Every armed completion event becomes due for notification.
FireArmed == [e \in Events |-> IF coreEv[e] = "armed" THEN "queued" ELSE coreEv[e]]

BNSetAnalysisHold(enable) ==
    /\ hold' = enable
    /\ IF enable /\ ~hold
       THEN savedState' = analysisState /\ analysisState' = "Hold"
       ELSE IF ~enable /\ hold
       THEN analysisState' = savedState /\ savedState' = savedState
       ELSE UNCHANGED <<analysisState, savedState>>
    /\ UNCHANGED <<dirty, aborted, coreEv>>

BNUpdateAnalysis ==
    IF ~hold /\ ~aborted /\ (analysisState = "Initial" \/ (analysisState = "Idle" /\ dirty))
    THEN /\ analysisState' = "Disassembling"
         /\ dirty' = FALSE
         /\ UNCHANGED <<hold, savedState, aborted, coreEv>>
    ELSE UNCHANGED coreVars

BNAbortAnalysis ==
    /\ aborted' = TRUE
    /\ dirty' = FALSE
    /\ IF hold
       THEN savedState' = "Idle" /\ analysisState' = analysisState
       ELSE analysisState' = "Idle" /\ savedState' = savedState
    /\ coreEv' = FireArmed
    /\ hold' = hold

BNAddFunctionForAnalysis ==
    /\ dirty' = TRUE
    /\ UNCHANGED <<analysisState, hold, savedState, aborted, coreEv>>

BNAddEntryPointForAnalysis ==
    /\ dirty' = TRUE
    /\ UNCHANGED <<analysisState, hold, savedState, aborted, coreEv>>

BNAddAnalysisCompletionEvent(e) ==
    /\ coreEv' = [coreEv EXCEPT ![e] = "armed"]
    /\ UNCHANGED <<analysisState, hold, savedState, dirty, aborted>>

BNCancelAnalysisCompletionEvent(e) ==
    /\ coreEv' = [coreEv EXCEPT ![e] = IF @ \in {"armed", "queued"} THEN "cancelled" ELSE @]
    /\ UNCHANGED <<analysisState, hold, savedState, dirty, aborted>>

\* The scheduler's worker: Disassembling -> Analyzing.
CoreDisassembleDone ==
    /\ analysisState = "Disassembling"
    /\ analysisState' = "Analyzing"
    /\ UNCHANGED <<hold, savedState, dirty, aborted, coreEv>>
    /\ UNCHANGED <<nfuncs, evVars, wpc, histVars>>
    /\ UNCHANGED nonAnalysisVars

\* The scheduler's worker: Analyzing -> Idle (natural completion), or back to
\* Disassembling when a function was added meanwhile.
CoreAnalyzeDone ==
    /\ analysisState = "Analyzing"
    /\ IF dirty
       THEN analysisState' = "Disassembling" /\ dirty' = FALSE /\ coreEv' = coreEv
       ELSE analysisState' = "Idle" /\ dirty' = dirty /\ coreEv' = FireArmed
    /\ UNCHANGED <<hold, savedState, aborted>>
    /\ addedSince' = FALSE
    /\ UNCHANGED <<fired, cancelReturned, holdReq, updWhileHeld, abortPending, rerun>>
    /\ UNCHANGED <<nfuncs, evVars, wpc>>
    /\ UNCHANGED nonAnalysisVars

(***************************************************************************)
(* BinaryView: the analysis controls.                                      *)
(***************************************************************************)

set_analysis_hold_const(enable) == BNSetAnalysisHold(FALSE)

set_analysis_hold(enable) == BNSetAnalysisHold(enable)

update_analysis == BNUpdateAnalysis

abort_analysis_nocall == UNCHANGED coreVars

abort_analysis == BNAbortAnalysis

\* add_function(addr, plat): plat is "None", "P" (a Platform) or "Bad"
\* (a value that is no Platform); viewPlatform is self.platform, "None" or
\* "P".  The result is the exception raised, or "ok".
add_function_result(viewPlatform, plat) ==
    IF viewPlatform = "None" /\ plat = "None" THEN "Exception"
    ELSE LET p == IF plat = "None" THEN viewPlatform ELSE plat
         IN IF p # "P" THEN "AttributeError" ELSE "ok"

add_function_unchecked(viewPlatform, plat) == BNAddFunctionForAnalysis

add_function(viewPlatform, plat) ==
    IF add_function_result(viewPlatform, plat) = "ok"
    THEN BNAddFunctionForAnalysis
    ELSE UNCHANGED coreVars

\* add_entry_point(addr, plat): the same checks as add_function.
add_entry_point(viewPlatform, plat) ==
    IF add_function_result(viewPlatform, plat) = "ok"
    THEN BNAddEntryPointForAnalysis
    ELSE UNCHANGED coreVars

SetAnalysisHold ==
    \E enable \in BOOLEAN :
        /\ set_analysis_hold(enable)
        /\ holdReq' = enable
        /\ updWhileHeld' = FALSE
        /\ UNCHANGED <<nfuncs, evVars, wpc>>
        /\ UNCHANGED <<fired, cancelReturned, abortPending, addedSince, rerun>>
        /\ UNCHANGED nonAnalysisVars

UpdateAnalysis ==
    /\ update_analysis
    /\ updWhileHeld' = holdReq
    /\ addedSince' = (addedSince /\ analysisState' = analysisState)
    /\ rerun' = (rerun \/ (analysisState = "Idle" /\ analysisState' = "Disassembling"))
    /\ UNCHANGED <<nfuncs, evVars, wpc>>
    /\ UNCHANGED <<fired, cancelReturned, holdReq, abortPending>>
    /\ UNCHANGED nonAnalysisVars

AbortAnalysis ==
    /\ abort_analysis
    /\ abortPending' = {e \in pending : coreEv[e] = "armed"}
    /\ addedSince' = FALSE
    /\ UNCHANGED <<nfuncs, evVars, wpc>>
    /\ UNCHANGED <<fired, cancelReturned, holdReq, updWhileHeld, rerun>>
    /\ UNCHANGED nonAnalysisVars

AddFunction ==
    \E viewPlatform \in {"None", "P"}, plat \in {"None", "P", "Bad"} :
        /\ nfuncs < MaxFuncs
        /\ add_function(viewPlatform, plat)
        /\ nfuncs' = nfuncs + 1
        /\ addedSince' = (addedSince \/ add_function_result(viewPlatform, plat) = "ok")
        /\ UNCHANGED <<fired, cancelReturned, holdReq, updWhileHeld, abortPending, rerun>>
        /\ UNCHANGED <<evVars, wpc>>
        /\ UNCHANGED nonAnalysisVars

AddEntryPoint ==
    \E viewPlatform \in {"None", "P"}, plat \in {"None", "P", "Bad"} :
        /\ nfuncs < MaxFuncs
        /\ add_entry_point(viewPlatform, plat)
        /\ nfuncs' = nfuncs + 1
        /\ addedSince' = (addedSince \/ add_function_result(viewPlatform, plat) = "ok")
        /\ UNCHANGED <<fired, cancelReturned, holdReq, updWhileHeld, abortPending, rerun>>
        /\ UNCHANGED <<evVars, wpc>>
        /\ UNCHANGED nonAnalysisVars

(***************************************************************************)
(* update_analysis_and_wait: the call enters the core, which starts the    *)
(* update and blocks the caller until the analysis is idle.  With hold     *)
(* enabled the call takes no action.                                       *)
(***************************************************************************)
BNUpdateAnalysisAndWait ==
    /\ BNUpdateAnalysis
    /\ wpc' = IF hold THEN "returned" ELSE "waiting"

update_analysis_no_wait ==
    /\ BNUpdateAnalysis
    /\ wpc' = "returned"

update_analysis_and_wait == BNUpdateAnalysisAndWait

UpdateAnalysisAndWait ==
    /\ wpc # "waiting"
    /\ update_analysis_and_wait
    /\ updWhileHeld' = holdReq
    /\ addedSince' = (addedSince /\ analysisState' = analysisState)
    /\ rerun' = (rerun \/ (analysisState = "Idle" /\ analysisState' = "Disassembling"))
    /\ UNCHANGED <<nfuncs, evVars>>
    /\ UNCHANGED <<fired, cancelReturned, holdReq, abortPending>>
    /\ UNCHANGED nonAnalysisVars

\* The core releases the blocked caller.
WaitReturn ==
    /\ wpc = "waiting"
    /\ analysisState = "Idle" \/ aborted
    /\ wpc' = "returned"
    /\ UNCHANGED <<coreVars, nfuncs, evVars, histVars>>
    /\ UNCHANGED nonAnalysisVars

(***************************************************************************)
(* AnalysisCompletionEvent.                                                *)
(***************************************************************************)

\* __init__, lines 280-283: the callback is stored and the event registered
\* with the core.
EventInitRegister(e) ==
    /\ ipc[e] = "none"
    /\ callback' = [callback EXCEPT ![e] = "user"]
    /\ BNAddAnalysisCompletionEvent(e)
    /\ ipc' = [ipc EXCEPT ![e] = "registered"]
    /\ UNCHANGED <<nfuncs, pending, npc, loaded, cpc, wpc, histVars>>
    /\ UNCHANGED nonAnalysisVars

\* __init__, line 284: the event enters the pending set; the constructor
\* returns.
EventInitInsert(e) ==
    /\ ipc[e] = "registered"
    /\ pending' = pending \cup {e}
    /\ ipc' = [ipc EXCEPT ![e] = "created"]
    /\ UNCHANGED <<coreVars, nfuncs, callback, npc, loaded, cpc, wpc, histVars>>
    /\ UNCHANGED nonAnalysisVars

\* _notify, lines 293-294, entered from the core when the event is due.
notify_remove(e) == pending \ {e}

NotifyBegin(e) ==
    /\ coreEv[e] = "queued"
    /\ coreEv' = [coreEv EXCEPT ![e] = "notified"]
    /\ pending' = notify_remove(e)
    /\ npc' = [npc EXCEPT ![e] = "n_load"]
    /\ UNCHANGED <<analysisState, hold, savedState, dirty, aborted>>
    /\ UNCHANGED <<nfuncs, ipc, callback, loaded, cpc, wpc, histVars>>
    /\ UNCHANGED nonAnalysisVars

\* _notify, lines 296-301: self.callback is inspected and evaluated.
NotifyLoad(e) ==
    /\ npc[e] = "n_load"
    /\ loaded' = [loaded EXCEPT ![e] = callback[e]]
    /\ npc' = [npc EXCEPT ![e] = "n_call"]
    /\ UNCHANGED <<coreVars, nfuncs, ipc, callback, pending, cpc, wpc, histVars>>
    /\ UNCHANGED nonAnalysisVars

\* _notify, lines 298-301: the number of invocations of the evaluated
\* callback: one of the two branches runs.
notify_calls_both(cb) == 2

notify_calls(cb) == 1

\* _notify, lines 299-303: the call; an exception of the callback is logged
\* and changes nothing else.
NotifyCall(e) ==
    /\ npc[e] = "n_call"
    /\ npc' = [npc EXCEPT ![e] = "done"]
    /\ fired' = [fired EXCEPT ![e] = IF loaded[e] = "user" THEN @ + notify_calls(loaded[e]) ELSE @]
    /\ UNCHANGED <<coreVars, nfuncs, ipc, callback, pending, loaded, cpc, wpc>>
    /\ UNCHANGED <<cancelReturned, holdReq, updWhileHeld, abortPending, addedSince, rerun>>
    /\ UNCHANGED nonAnalysisVars

\* cancel, line 315.
CancelSet(e) ==
    /\ ipc[e] = "created"
    /\ cpc[e] = "idle"
    /\ callback' = [callback EXCEPT ![e] = "empty"]
    /\ cpc' = [cpc EXCEPT ![e] = "c_core"]
    /\ UNCHANGED <<coreVars, nfuncs, ipc, pending, npc, loaded, wpc, histVars>>
    /\ UNCHANGED nonAnalysisVars

\* cancel, line 316.
CancelCore(e) ==
    /\ cpc[e] = "c_core"
    /\ BNCancelAnalysisCompletionEvent(e)
    /\ cpc' = [cpc EXCEPT ![e] = "c_del"]
    /\ UNCHANGED <<nfuncs, ipc, callback, pending, npc, loaded, wpc, histVars>>
    /\ UNCHANGED nonAnalysisVars

\* cancel, lines 317-318; the call returns.
cancel_remove(e) == pending \ {e}

CancelDel(e) ==
    /\ cpc[e] = "c_del"
    /\ pending' = cancel_remove(e)
    /\ cpc' = [cpc EXCEPT ![e] = "idle"]
    /\ cancelReturned' = [cancelReturned EXCEPT ![e] = TRUE]
    /\ UNCHANGED <<coreVars, nfuncs, ipc, callback, npc, loaded, wpc>>
    /\ UNCHANGED <<fired, holdReq, updWhileHeld, abortPending, addedSince, rerun>>
    /\ UNCHANGED nonAnalysisVars

(***************************************************************************)
(* Searches of the view: find_all_data, find_all_text, find_all_constant.  *)
(***************************************************************************)
MaxMatches == 3     \* matches of the pattern in [start, end)

SearchKinds == {"data", "text", "constant"}
\* What the caller's match_callback returns.
PyRets == {"True", "False", "None"}
\* What the caller's progress_func returns.
ProgRets == {"True", "False"}

\* The progress callback handed to the core:
\* lambda ctxt, cur, total: progress_func(cur, total).
ProgressWrapper_ignored(ret) == TRUE
ProgressWrapper(ret) == ret = "True"

\* The match callback of the synchronous form:
\* lambda ctxt, addr, match: not match_callback(addr, ...) is False.
MatchWrapper_always(kind, ret) == TRUE
MatchWrapper_truthy(kind, ret) == ret = "True"
MatchWrapper(kind, ret) == ~(ret = "False")

\* The match callback of the streaming form:
\* lambda ctxt, addr, match: results.put((addr, ...)) or True.
StreamMatchWrapper(m) ==
    /\ queue' = Append(queue, m)
    /\ running' = TRUE

SearchFrame == UNCHANGED <<analysisVars, notifyVars, rd, restVars>>

\* find_all_*(start, end, ..., match_callback = f): the core's search runs
\* on the caller's thread.
FindAllSync ==
    \E kind \in SearchKinds, n \in 0..MaxMatches, r \in PyRets :
        /\ sform = "none"
        /\ sform' = "sync"
        /\ skind' = kind
        /\ total' = n
        /\ mret' = r
        /\ running' = TRUE
        /\ UNCHANGED <<produced, alive, sreturned, cancelled, queue, gpc, lastNext,
                       yielded, discarded>>
        /\ SearchFrame

\* find_all_*(start, end, ...) without match_callback: QueueGenerator.__init__
\* starts the thread that runs the core's search.
FindAllStream ==
    \E kind \in SearchKinds, n \in 0..MaxMatches :
        /\ sform = "none"
        /\ sform' = "stream"
        /\ skind' = kind
        /\ total' = n
        /\ running' = TRUE
        /\ alive' = TRUE
        /\ UNCHANGED <<mret, produced, sreturned, cancelled, queue, gpc, lastNext,
                       yielded, discarded>>
        /\ SearchFrame

\* ---- the core's search loop ----

\* The core reports its progress; it stops when the callback returns false.
CoreSearchProgress ==
    \E ret \in ProgRets :
        /\ running
        /\ running' = ProgressWrapper(ret)
        /\ cancelled' = (cancelled \/ ret = "False")
        /\ UNCHANGED <<sform, skind, total, mret, produced, alive, sreturned, queue,
                       gpc, lastNext, yielded, discarded>>
        /\ SearchFrame

\* The core reports the next match; it stops when the callback returns false.
CoreSearchMatch ==
    /\ running
    /\ produced < total
    /\ produced' = produced + 1
    /\ IF sform = "sync"
       THEN /\ running' = MatchWrapper(skind, mret)
            /\ queue' = queue
       ELSE StreamMatchWrapper(produced + 1)
    /\ UNCHANGED <<sform, skind, total, mret, alive, sreturned, cancelled, gpc,
                   lastNext, yielded, discarded>>
    /\ SearchFrame

\* The core has searched all of [start, end).
CoreSearchDone ==
    /\ running
    /\ produced = total
    /\ running' = FALSE
    /\ UNCHANGED <<sform, skind, total, mret, produced, alive, sreturned, cancelled,
                   queue, gpc, lastNext, yielded, discarded>>
    /\ SearchFrame

\* The core's call returns to find_all_*, which returns to its caller.
SyncReturn ==
    /\ sform = "sync"
    /\ ~running
    /\ ~sreturned
    /\ sreturned' = TRUE
    /\ UNCHANGED <<sform, skind, total, mret, produced, running, alive, cancelled,
                   queue, gpc, lastNext, yielded, discarded>>
    /\ SearchFrame

\* The core's call returns to the thread's target, and the thread ends.
ThreadExit ==
    /\ sform = "stream"
    /\ ~running
    /\ alive
    /\ alive' = FALSE
    /\ UNCHANGED <<sform, skind, total, mret, produced, running, sreturned, cancelled,
                   queue, gpc, lastNext, yielded, discarded>>
    /\ SearchFrame

\* ---- QueueGenerator.__next__ ----

ConsumerFrame ==
    /\ UNCHANGED <<sform, skind, total, mret, produced, running, alive, sreturned,
                   cancelled, discarded>>
    /\ SearchFrame

\* The caller calls next() on the generator.
NextBegin ==
    /\ sform = "stream"
    /\ ~discarded
    /\ gpc = "out"
    /\ gpc' = "n_empty"
    /\ UNCHANGED <<queue, lastNext, yielded>>
    /\ ConsumerFrame

\* if not self.results.empty():
NextEmpty ==
    /\ gpc = "n_empty"
    /\ gpc' = IF queue # <<>> THEN "n_get" ELSE "n_alive"
    /\ UNCHANGED <<queue, lastNext, yielded>>
    /\ ConsumerFrame

\* return self.results.get()
NextGet ==
    /\ gpc = "n_get"
    /\ queue # <<>>
    /\ queue' = Tail(queue)
    /\ yielded' = Append(yielded, Head(queue))
    /\ lastNext' = "item"
    /\ gpc' = "out"
    /\ ConsumerFrame

\* if (not self.thread.is_alive()) ...
NextAlive ==
    /\ gpc = "n_alive"
    /\ gpc' = IF alive THEN "n_empty" ELSE "n_empty2"
    /\ UNCHANGED <<queue, lastNext, yielded>>
    /\ ConsumerFrame

\* ... and self.results.empty(): raise StopIteration
stop_iteration_unchecked(q) == TRUE
stop_iteration(q) == q = <<>>

NextEmpty2 ==
    /\ gpc = "n_empty2"
    /\ IF stop_iteration(queue)
       THEN gpc' = "out" /\ lastNext' = "stop"
       ELSE gpc' = "n_empty" /\ lastNext' = lastNext
    /\ UNCHANGED <<queue, yielded>>
    /\ ConsumerFrame

\* The caller drops its last reference to the generator.  QueueGenerator has
\* no __del__ and nothing joins or stops the thread.
Discard ==
    /\ sform = "stream"
    /\ ~discarded
    /\ gpc = "out"
    /\ discarded' = TRUE
    /\ UNCHANGED <<sform, skind, total, mret, produced, running, alive, sreturned,
                   cancelled, queue, gpc, lastNext, yielded>>
    /\ SearchFrame

InitSearch ==
    /\ sform = "none"
    /\ skind = "data"
    /\ total = 0
    /\ mret = "None"
    /\ produced = 0
    /\ running = FALSE
    /\ alive = FALSE
    /\ sreturned = FALSE
    /\ cancelled = FALSE
    /\ queue = <<>>
    /\ gpc = "out"
    /\ lastNext = "none"
    /\ yielded = <<>>
    /\ discarded = FALSE

(***************************************************************************)
(* The address space, its metadata and the change notifications.           *)
(***************************************************************************)
NumObs == 2         \* observers (BinaryDataNotification objects)
MaxRegs == 2        \* register_notification calls in one behaviour
MaxOps == 3         \* mutating calls in one behaviour
MaxLen == 3         \* largest length of the view
MaxData == 2        \* longest data of one write or insert
NumVarAddrs == 1    \* addresses at which data variables are defined

Obs == 1..NumObs
Cbs == 1..MaxRegs
Bytes == {0, 1}
Addrs == 0..MaxLen
VarAddrs == 0..(NumVarAddrs - 1)
Types == {"TypeA", "TypeB"}
DataSeqs == UNION {[1..n -> Bytes] : n \in 1..MaxData}
Min(a, b) == IF a < b THEN a ELSE b

DataKinds == {"data_written", "data_inserted", "data_removed"}
VarKinds == {"data_var_added", "data_var_removed", "data_var_updated"}
OtherKinds ==
    {"function_added", "function_removed", "function_updated",
     "function_update_requested", "data_metadata_updated", "tag_type_updated",
     "tag_added", "tag_updated", "tag_removed", "symbol_added",
     "symbol_updated", "symbol_removed", "string_found", "string_removed",
     "type_defined", "type_undefined", "type_ref_changed"}
EventKinds == DataKinds \cup VarKinds \cup OtherKinds

\* What an observer's handler does when invoked: it returns, or raises an
\* OSError, or raises another exception.
Outcomes == {"ok", "OSError", "ValueError"}

Event(kind, a, n, t) == [kind |-> kind, a |-> a, n |-> n, t |-> t]
NoEvent == Event("none", 0, 0, "None")
NoCall == [ev |-> NoEvent, data |-> <<>>, before |-> <<>>, lenBefore |-> 0]
\* The result of the core's query for a data variable: found or not, and
\* the BNDataVariable structure it filled in.
CoreVar(found, t, auto) == [found |-> found, type |-> t, auto |-> auto]
NoCoreVar == CoreVar(FALSE, "None", FALSE)
\* The result of get_data_var_at: None or a DataVariable.
PyNone == [isNone |-> TRUE, type |-> "None", auto |-> FALSE]
DataVariable(t, auto) == [isNone |-> FALSE, type |-> t, auto |-> auto]
NoOp == [op |-> "none", a |-> 0, t |-> "None", ok |-> FALSE, n |-> 0,
         pre |-> NoCoreVar, shadowed |-> FALSE]

\* ---- the core's storage ----

\* An address that lies in no segment holds Unmapped.
Unmapped == -1
MappedAt(m, addr) == addr < Len(m) /\ m[addr + 1] # Unmapped

\* The number of mapped bytes from addr on, up to length.  The core takes
\* length as an unsigned 64-bit integer: a negative one exceeds every view.
MappedRun(m, addr, length) ==
    CHOOSE k \in 0..Len(m) :
        /\ \A i \in 0..(k - 1) : MappedAt(m, addr + i)
        /\ k = length \/ ~MappedAt(m, addr + k)

\* The contiguous mapped prefix of [addr, addr + length).
BNReadViewBuffer(m, addr, length) ==
    SubSeq(m, addr + 1, addr + MappedRun(m, addr, length))

BNGetModification(md, addr) ==
    IF addr < Len(md) THEN md[addr + 1] ELSE "Original"

\* ---- the core's segments ----

\* The permission flags of a segment.
FlagSets == {{"r", "w"}, {"r", "x"}}
Segment(start, length, flags) == [start |-> start, length |-> length, flags |-> flags]
\* The segments that fit in a view of MaxLen addresses.
Segments ==
    {Segment(s, l, f) : s \in 0..(MaxLen - 1), l \in 1..MaxLen, f \in FlagSets}
SegmentsInRange == {g \in Segments : g.start + g.length <= MaxLen}

SegContains(g, addr) == g.start <= addr /\ addr < g.start + g.length
SegOverlap(g, h) == g.start < h.start + h.length /\ h.start < g.start + g.length
SameBounds(g, h) == g.start = h.start /\ g.length = h.length
Covered(S, addr) == \E g \in S : SegContains(g, addr)

\* The runs of mapped addresses of m, as readable and writable segments.
RunsOf(m) ==
    {g \in SegmentsInRange :
        /\ g.flags = {"r", "w"}
        /\ \A a \in g.start..(g.start + g.length - 1) : MappedAt(m, a)
        /\ ~MappedAt(m, g.start + g.length)
        /\ g.start > 0 => ~MappedAt(m, g.start - 1)}

MaxSegOps == 3      \* segment operations in one behaviour
SegOp(op, g, n) == [op |-> op, seg |-> g, n |-> n]
NoSegOp == SegOp("none", Segment(0, 0, {}), 0)

\* The end of the last segment of S.
SegEnd(S) ==
    IF S = {} THEN 0
    ELSE CHOOSE n \in 1..MaxLen :
             /\ \E g \in S : g.start + g.length = n
             /\ \A g \in S : g.start + g.length <= n

\* The bytes of the view under the segments S: an address that S maps keeps
\* its byte, a newly mapped one reads 0, the others are unmapped.
Remap(S) ==
    [i \in 1..SegEnd(S) |->
        IF Covered(S, i - 1)
        THEN IF MappedAt(mem, i - 1) THEN mem[i] ELSE 0
        ELSE Unmapped]
RemapModif(S) ==
    [i \in 1..SegEnd(S) |-> IF MappedAt(mem, i - 1) THEN modif[i] ELSE "Original"]

\* A segment that overlaps one of the same provenance is rejected.
BNAddAutoSegment(g) ==
    /\ autoSegs' = IF \E h \in autoSegs : SegOverlap(g, h) THEN autoSegs ELSE autoSegs \cup {g}
    /\ userSegs' = userSegs

BNAddUserSegment(g) ==
    /\ userSegs' = IF \E h \in userSegs : SegOverlap(g, h) THEN userSegs ELSE userSegs \cup {g}
    /\ autoSegs' = autoSegs

BNRemoveAutoSegment(start, length) ==
    /\ autoSegs' = {h \in autoSegs : ~(h.start = start /\ h.length = length)}
    /\ userSegs' = userSegs

BNRemoveUserSegment(start, length) ==
    /\ userSegs' = {h \in userSegs : ~(h.start = start /\ h.length = length)}
    /\ autoSegs' = autoSegs

\* The segment at addr: the user-defined one takes priority.
NoSegment == Segment(0, 0, {})
BNGetSegmentAt(addr) ==
    IF Covered(userSegs, addr) THEN CHOOSE g \in userSegs : SegContains(g, addr)
    ELSE IF Covered(autoSegs, addr) THEN CHOOSE g \in autoSegs : SegContains(g, addr)
    ELSE NoSegment

\* The validity and the permissions of an address, from the segments.
BNIsValidOffset(addr) == Covered(autoSegs \cup userSegs, addr)
BNIsOffsetReadable(addr) == "r" \in BNGetSegmentAt(addr).flags
BNIsOffsetWritable(addr) == "w" \in BNGetSegmentAt(addr).flags
BNIsOffsetExecutable(addr) == "x" \in BNGetSegmentAt(addr).flags

\* ---- the core's writes, inserts and removals ----

\* A byte can be written where the view is mapped and the segment at the
\* address is writable; an address the view gained by an insert lies in no
\* segment and is writable.
WritableAt(addr) ==
    /\ MappedAt(mem, addr)
    /\ Covered(autoSegs \cup userSegs, addr) => BNIsOffsetWritable(addr)

\* The number of bytes of data that fit at addr: the write stops at the
\* first address that is unmapped or not writable.
WriteLen(addr, data) ==
    CHOOSE k \in 0..Len(data) :
        /\ \A i \in 0..(k - 1) : WritableAt(addr + i)
        /\ k = Len(data) \/ ~WritableAt(addr + k)

WriteMem(addr, data) ==
    [i \in 1..Len(mem) |->
        IF addr < i /\ i <= addr + WriteLen(addr, data) THEN data[i - addr] ELSE mem[i]]

\* A written byte is Changed, except an Original byte written with its value.
WriteModif(addr, data) ==
    [i \in 1..Len(mem) |->
        IF addr < i /\ i <= addr + WriteLen(addr, data)
        THEN IF modif[i] = "Original" /\ data[i - addr] = mem[i] THEN "Original" ELSE "Changed"
        ELSE modif[i]]

\* perform_insert and perform_remove of a view that does not override
\* them: return 0.
perform_insert_all(addr, data) == Len(data)
perform_insert(addr, data) == 0
perform_remove(addr, length) == 0

\* _insert and _remove: the callbacks the core calls.
_insert(offset, data) == perform_insert(offset, data)
_remove(offset, length) == perform_remove(offset, length)

\* The number of bytes the backend inserts: a backend that opts in
\* inserts data inside the view while the view has room.
InsertLen(addr, data) ==
    IF addr <= Len(mem) /\ Len(mem) + Len(data) <= MaxLen
    THEN IF optsIn THEN Len(data) ELSE _insert(addr, data)
    ELSE 0

InsertSeq(q, addr, ins) == SubSeq(q, 1, addr) \o ins \o SubSeq(q, addr + 1, Len(q))

RemoveLen(addr, length) ==
    IF addr < Len(mem)
    THEN IF optsIn THEN Min(length, Len(mem) - addr) ELSE _remove(addr, length)
    ELSE 0

RemoveSeq(q, addr, k) == SubSeq(q, 1, addr) \o SubSeq(q, addr + k + 1, Len(q))

\* ---- the core's data variables ----

\* The record a query at addr returns: the user record shadows the auto one.
BNGetDataVariableAtAddress(av, uv, addr) ==
    IF uv[addr] # "None" THEN CoreVar(TRUE, uv[addr], FALSE)
    ELSE IF av[addr] # "None" THEN CoreVar(TRUE, av[addr], TRUE)
    ELSE NoCoreVar

\* The kind of the event of a define or undefine, from the records a query
\* returned before and after it.
VarEventKind(pre, post) ==
    IF ~post.found THEN "data_var_removed"
    ELSE IF pre.found /\ pre # post THEN "data_var_updated"
    ELSE "data_var_added"

\* ---- BinaryView: reads and queries ----

\* read(addr, length), for addr >= 0 and length >= 0:
\* bytes(DataBuffer(handle = core.BNReadViewBuffer(self.handle, addr, length))).
read_swapped(addr, length) == BNReadViewBuffer(mem, length, addr)
read(addr, length) == BNReadViewBuffer(mem, addr, length)

\* if (addr < 0) or (length < 0): raise ValueError
read_rejects_addr(addr, length) == addr < 0
read_rejects(addr, length) == (addr < 0) \/ (length < 0)

ReadArgs == (0 - 1)..(MaxLen + 1)
ReadCall(addr, length, raised, core, out) ==
    [called |-> TRUE, addr |-> addr, length |-> length, raised |-> raised,
     core |-> core, out |-> out]
NoRead == [called |-> FALSE, addr |-> 0, length |-> 0, raised |-> "none",
           core |-> FALSE, out |-> <<>>]

\* A call of read: rd records whether it raised, whether it called the
\* core, and the bytes it returned.
Read ==
    \E addr \in ReadArgs, length \in ReadArgs :
        /\ rd' = IF read_rejects(addr, length)
                 THEN ReadCall(addr, length, "ValueError", FALSE, <<>>)
                 ELSE ReadCall(addr, length, "none", TRUE, read(addr, length))
        /\ UNCHANGED <<analysisVars, notifyVars, searchVars, restVars>>

get_modification(addr) == BNGetModification(modif, addr)

\* ---- the view's own storage callbacks (perform_*) ----

\* perform_get_start: return 0
perform_get_start == 0

\* The view provides its bytes and its length; its end is start + length.
ViewEnd == perform_get_start + Len(mem)

\* perform_is_valid_offset: data = self.read(addr, 1);
\* return (data is not None) and (len(data) == 1)
perform_is_valid_offset_any(addr) == Len(read(addr, 1)) >= 0
perform_is_valid_offset(addr) == Len(read(addr, 1)) = 1

\* perform_get_next_valid_offset:
\* if addr < self.perform_get_start(): return self.perform_get_start()
\* return addr
perform_get_next_valid_offset(addr) ==
    IF addr < perform_get_start THEN perform_get_start ELSE addr

\* _get_next_valid_offset: the callback the core calls.
_get_next_valid_offset(offset) == perform_get_next_valid_offset(offset)

\* ---- BinaryView: validity, permissions and segments ----

is_valid_offset(addr) == BNIsValidOffset(addr)
is_offset_readable(addr) == BNIsOffsetReadable(addr)
is_offset_writable(addr) == BNIsOffsetWritable(addr)
is_offset_executable(addr) == BNIsOffsetExecutable(addr)

\* The defaults of a view that does not override them: each one is
\* return self.is_valid_offset(addr).
perform_is_offset_readable(offset) == is_valid_offset(offset)
perform_is_offset_writable(addr) == is_valid_offset(addr)
perform_is_offset_executable(addr) == is_valid_offset(addr)

\* get_segment_at: None when the core returns no segment.
get_segment_at_none(addr) == [isNone |-> TRUE, seg |-> NoSegment]
get_segment_at(addr) ==
    LET seg == BNGetSegmentAt(addr)
    IN  IF seg = NoSegment THEN [isNone |-> TRUE, seg |-> NoSegment]
        ELSE [isNone |-> FALSE, seg |-> seg]

\* What a segment operation leaves alone.
SegFrame ==
    /\ UNCHANGED <<autoVars, userVars, registered, notifications, nextCb, deliverVars,
                   blocked, logged, escaped, notifyHist>>
    /\ UNCHANGED <<analysisVars, searchVars, rd, nonSegRest>>

\* The view's bytes follow its segments.
SegStorage ==
    /\ mem' = Remap(autoSegs' \cup userSegs')
    /\ modif' = RemapModif(autoSegs' \cup userSegs')

\* add_auto_segment(start, length, data_offset, data_length, flags)
AddAutoSegment ==
    \E g \in SegmentsInRange :
        /\ segOp.n < MaxSegOps
        /\ BNAddAutoSegment(g)
        /\ segOp' = SegOp("add_auto_segment", g, segOp.n + 1)
        /\ SegStorage
        /\ SegFrame

\* add_user_segment(start, length, data_offset, data_length, flags)
AddUserSegment ==
    \E g \in SegmentsInRange :
        /\ segOp.n < MaxSegOps
        /\ BNAddUserSegment(g)
        /\ segOp' = SegOp("add_user_segment", g, segOp.n + 1)
        /\ SegStorage
        /\ SegFrame

\* remove_auto_segment(start, length)
RemoveAutoSegment ==
    \E g \in SegmentsInRange :
        /\ g.flags = {"r", "w"}
        /\ segOp.n < MaxSegOps
        /\ BNRemoveAutoSegment(g.start, g.length)
        /\ segOp' = SegOp("remove_auto_segment", g, segOp.n + 1)
        /\ SegStorage
        /\ SegFrame

\* remove_user_segment(start, length)
RemoveUserSegment ==
    \E g \in SegmentsInRange :
        /\ g.flags = {"r", "w"}
        /\ segOp.n < MaxSegOps
        /\ BNRemoveUserSegment(g.start, g.length)
        /\ segOp' = SegOp("remove_user_segment", g, segOp.n + 1)
        /\ SegStorage
        /\ SegFrame

ScanAddrs == 0..(MaxLen + 1)
NvoCall(addr, result) == [called |-> TRUE, addr |-> addr, result |-> result]
NoNvo == [called |-> FALSE, addr |-> 0, result |-> 0]

RestFrame == UNCHANGED <<analysisVars, notifyVars, searchVars, rd>>

\* A query for the next valid offset at or after addr.
GetNextValidOffset ==
    \E addr \in ScanAddrs :
        /\ nvo' = NvoCall(addr, _get_next_valid_offset(addr))
        /\ UNCHANGED <<scanning, scanPos>>
        /\ RestFrame
        /\ UNCHANGED nonScanRest

\* A caller starts a linear scan of the view at its start.
ScanBegin ==
    /\ ~scanning
    /\ scanning' = TRUE
    /\ scanPos' = perform_get_start
    /\ nvo' = nvo
    /\ RestFrame
    /\ UNCHANGED nonScanRest

\* One step of the scan: a valid address is visited, a gap is skipped with
\* the next valid offset.
ScanStep ==
    /\ scanning
    /\ scanPos < ViewEnd
    /\ IF perform_is_valid_offset(scanPos)
       THEN scanPos' = scanPos + 1 /\ nvo' = nvo
       ELSE /\ scanPos' = _get_next_valid_offset(scanPos)
            /\ nvo' = NvoCall(scanPos, scanPos')
    /\ scanning' = scanning
    /\ RestFrame
    /\ UNCHANGED nonScanRest

\* The cursor has reached the end of the view.
ScanEnd ==
    /\ scanning
    /\ scanPos >= ViewEnd
    /\ scanning' = FALSE
    /\ UNCHANGED <<nvo, scanPos>>
    /\ RestFrame
    /\ UNCHANGED nonScanRest

(***************************************************************************)
(* Types and the value of a data variable.                                 *)
(***************************************************************************)
NumTypes == 3           \* type ids of the view
RecursionLimit == 5     \* nested calls the interpreter allows (scaled)

TypeIds == 1..NumTypes
\* A type is concrete or a NamedTypeReference, which is written as the id it
\* refers to.
ConcreteType == 0
\* The core has no type with the id.
MissingType == 0 - 1
\* Python's None.
NoType == 0 - 2
StoredTypes == {ConcreteType, MissingType} \cup TypeIds

\* get_type_by_id: None when the core has no type with the id.
get_type_by_id_concrete(id) == ConcreteType
get_type_by_id(id) ==
    LET obj == typeTab[id]
    IN  IF obj = MissingType THEN NoType ELSE obj

TypeFrame == UNCHANGED <<analysisVars, notifyVars, searchVars, rd, nonTypeRest>>

\* DataVariable.value: return self._value_helper(self.type, data)
ValueBegin ==
    \E t \in {ConcreteType} \cup TypeIds :
        /\ vpc = "idle"
        /\ vpc' = "resolving"
        /\ vstart' = t
        /\ vt' = t
        /\ depth' = 1
        /\ UNCHANGED <<typeTab, verr>>
        /\ TypeFrame

\* One call of _value_helper(t, data): a concrete type yields the value; a
\* NamedTypeReference looks its target up, asserts that there is one and
\* calls _value_helper with it.  The interpreter raises RecursionError in a
\* call nested deeper than its limit.
ValueHelper ==
    /\ vpc = "resolving"
    /\ IF depth > RecursionLimit
       THEN vpc' = "error" /\ verr' = "RecursionError" /\ UNCHANGED <<vt, depth>>
       ELSE IF vt = ConcreteType
       THEN vpc' = "value" /\ UNCHANGED <<vt, depth, verr>>
       ELSE LET target == get_type_by_id(vt)
            IN  IF target = NoType
                THEN vpc' = "error" /\ verr' = "AssertionError" /\ UNCHANGED <<vt, depth>>
                ELSE vpc' = vpc /\ vt' = target /\ depth' = depth + 1 /\ verr' = verr
    /\ UNCHANGED <<typeTab, vstart>>
    /\ TypeFrame

\* The types a freshly opened view defines.
InitValue ==
    /\ vpc = "idle"
    /\ vstart = ConcreteType
    /\ vt = ConcreteType
    /\ depth = 0
    /\ verr = "none"

(***************************************************************************)
(* Iteration over the instructions at an address.                          *)
(***************************************************************************)
\* arch.max_instr_length
max_instr_length == 2

\* The decoder of an architecture, as the length of the instruction it
\* finds at each address of the view; 0 where it finds none.
Archs == [0..(MaxLen - 1) -> 0..max_instr_length]
NoArch == [isNone |-> TRUE, tab |-> [a \in 0..(MaxLen - 1) |-> 0]]
Arch(tab) == [isNone |-> FALSE, tab |-> tab]
ArchArgs == {NoArch} \cup {Arch(tab) : tab \in Archs}

\* arch.get_instruction_text(data, addr): the tokens of one instruction and
\* the length it consumed; (None, 0) when data holds no whole instruction.
Decoded(hasTokens, size) == [hasTokens |-> hasTokens, size |-> size]
get_instruction_text(arch, data, addr) ==
    IF Len(data) = 0 THEN Decoded(FALSE, 0)
    ELSE LET n == arch.tab[addr]
         IN  IF n = 0 \/ n > Len(data) THEN Decoded(FALSE, 0)
             ELSE Decoded(TRUE, n)

\* if size == 0 or tokens is None: break
halts_never(r) == FALSE
halts(r) == r.size = 0 \/ ~r.hasTokens

Yielded(form, addr, size) == [form |-> form, addr |-> addr, size |-> size]

DisFrame == UNCHANGED <<analysisVars, notifyVars, searchVars, rd, nonDisRest>>

\* disassembly_tokens(addr, arch) or disassembly_text(addr, arch) is called:
\* a generator, whose body has not started.
DisasmBegin ==
    \E form \in {"tokens", "text"}, addr \in ScanAddrs, arch \in ArchArgs :
      \* self.arch is read only when no arch is given
      \E viewArch \in IF arch.isNone THEN ArchArgs ELSE {NoArch} :
        /\ dpc = "idle"
        /\ dpc' = "ready"
        /\ dform' = form
        /\ darch' = IF arch.isNone THEN viewArch ELSE arch
        /\ daddr' = addr
        /\ dsize' = 1
        /\ dyield' = <<>>
        /\ DisFrame

\* next() of the generator: the check of the architecture on the first
\* call, then one pass of the loop.
DisasmNext ==
    /\ dpc \in {"ready", "yielded"}
    /\ IF darch.isNone
       THEN dpc' = "error" /\ UNCHANGED <<daddr, dsize, dyield>>
       ELSE IF dsize = 0
       THEN dpc' = "done" /\ UNCHANGED <<daddr, dsize, dyield>>
       ELSE LET r == get_instruction_text(darch, read(daddr, max_instr_length), daddr)
            IN  /\ dsize' = r.size
                /\ daddr' = daddr + r.size
                /\ IF halts(r)
                   THEN dpc' = "done" /\ dyield' = dyield
                   ELSE /\ dpc' = "yielded"
                        /\ dyield' = Append(dyield, Yielded(dform, daddr, r.size))
    /\ UNCHANGED <<dform, darch>>
    /\ DisFrame

InitDisasm ==
    /\ dform = "tokens"
    /\ darch = NoArch
    /\ dpc = "idle"
    /\ daddr = 0
    /\ dsize = 1
    /\ dyield = <<>>

(***************************************************************************)
(* The linear view: a cursor over units that render lines.                 *)
(***************************************************************************)
MaxUnits == 3           \* units of the linear view
MaxLines == 2           \* lines one unit renders

\* Line k of unit u.
Line(u, k) == <<u, k>>

\* pos.lines: the lines of the unit the cursor stands at, none outside.
LinesAt(p) ==
    IF p \in 1..Len(units) THEN [k \in 1..units[p] |-> Line(p, k)] ELSE <<>>

\* pos.next() and pos.previous(): one unit forward or back; False at the
\* boundary.
Stepped(pos, ok) == [pos |-> pos, ok |-> ok]
CursorNext(p) ==
    IF p > Len(units) THEN Stepped(p, FALSE)
    ELSE Stepped(p + 1, ~(stopOnArrival /\ p + 1 > Len(units)))
CursorPrevious(p) ==
    IF p = 0 THEN Stepped(p, FALSE)
    ELSE Stepped(p - 1, ~(stopOnArrival /\ p - 1 = 0))

\* while len(result) == 0
keep_stepping_never(result) == FALSE
keep_stepping(result) == Len(result) = 0

LinFrame == UNCHANGED <<analysisVars, notifyVars, searchVars, rd, nonLinRest>>

\* get_linear_disassembly_position_at(addr): a cursor, seeked.
GetLinearDisassemblyPositionAt ==
    \E p \in 0..(Len(units) + 1) :
        /\ lpc = "idle" /\ ~iterating
        /\ lpos' = p
        /\ UNCHANGED <<units, stopOnArrival, lpc, lop, lres, lhit, lfrom, iterating, lyield>>
        /\ LinFrame

\* get_next_linear_disassembly_lines(pos) is called: result = []
GetNextBegin ==
    /\ lpc = "idle" /\ ~iterating
    /\ lpc' = "next" /\ lop' = "next"
    /\ lres' = <<>> /\ lhit' = FALSE /\ lfrom' = lpos
    /\ UNCHANGED <<units, stopOnArrival, lpos, iterating, lyield>>
    /\ LinFrame

\* One pass of its loop: result = pos.lines; if not pos.next(): return
GetNextPass ==
    /\ lpc = "next"
    /\ LET result == LinesAt(lpos)
           step == CursorNext(lpos)
       IN  /\ lres' = result
           /\ lpos' = step.pos
           /\ lhit' = ~step.ok
           /\ lpc' = IF step.ok /\ keep_stepping(result) THEN "next" ELSE "returned"
    /\ UNCHANGED <<units, stopOnArrival, lop, lfrom, iterating, lyield>>
    /\ LinFrame

\* get_previous_linear_disassembly_lines(pos) is called: result = []
GetPreviousBegin ==
    /\ lpc = "idle" /\ ~iterating
    /\ lpc' = "previous" /\ lop' = "previous"
    /\ lres' = <<>> /\ lhit' = FALSE /\ lfrom' = lpos
    /\ UNCHANGED <<units, stopOnArrival, lpos, iterating, lyield>>
    /\ LinFrame

\* One pass of its loop: if not pos.previous(): return; result = pos.lines
GetPreviousPass ==
    /\ lpc = "previous"
    /\ LET step == CursorPrevious(lpos)
           result == IF step.ok THEN LinesAt(step.pos) ELSE lres
       IN  /\ lpos' = step.pos
           /\ lhit' = ~step.ok
           /\ lres' = result
           /\ lpc' = IF step.ok /\ keep_stepping(result) THEN "previous" ELSE "returned"
    /\ UNCHANGED <<units, stopOnArrival, lop, lfrom, iterating, lyield>>
    /\ LinFrame

\* The caller has the result.
LinesReturn ==
    /\ lpc = "returned" /\ ~iterating
    /\ lpc' = "idle"
    /\ UNCHANGED <<units, stopOnArrival, lpos, lop, lres, lhit, lfrom, iterating, lyield>>
    /\ LinFrame

\* iter(get_linear_disassembly(settings)): a new cursor, and the first call
\* of get_next_linear_disassembly_lines.
IterBegin ==
    \E p \in {0, 1} :
        /\ lpc = "idle" /\ ~iterating /\ lop = "none"
        /\ iterating' = TRUE
        /\ lyield' = <<>>
        /\ lpos' = p
        /\ lpc' = "next" /\ lop' = "next"
        /\ lres' = <<>> /\ lhit' = FALSE /\ lfrom' = p
        /\ UNCHANGED <<units, stopOnArrival>>
        /\ LinFrame

\* The iterator has the lines: it ends when there are none, else it yields
\* them and calls again.
IterResume ==
    /\ lpc = "returned" /\ iterating
    /\ IF Len(lres) = 0
       THEN /\ lpc' = "ended" /\ iterating' = FALSE
            /\ UNCHANGED <<lyield, lres, lhit, lfrom>>
       ELSE /\ lyield' = lyield \o lres
            /\ lpc' = "next" /\ lres' = <<>> /\ lhit' = FALSE /\ lfrom' = lpos
            /\ iterating' = iterating
    /\ UNCHANGED <<units, stopOnArrival, lpos, lop>>
    /\ LinFrame

InitCursor ==
    /\ lpos = 0
    /\ lpc = "idle"
    /\ lop = "none"
    /\ lres = <<>>
    /\ lhit = FALSE
    /\ lfrom = 0
    /\ iterating = FALSE
    /\ lyield = <<>>

\* A linear view of one unit with one line.
InitUnits == units = <<1>> /\ stopOnArrival = TRUE

(***************************************************************************)
(* Tag types and the tags at addresses.                                    *)
(***************************************************************************)
MaxTagTypes == 2        \* tag types ever created
MaxTagOps == 5          \* tag operations
NumTagAddrs == 2        \* addresses that carry tags

TagTypeIds == 1..MaxTagTypes
TagAddrs == 0..(NumTagAddrs - 1)

TagRef(addr, type, user) == [addr |-> addr, type |-> type, user |-> user]
TagOp(op, type, n) == [op |-> op, type |-> type, n |-> n]

\* The core: a new tag type enters the view.
BNAddTagType(t) ==
    /\ tagTypes' = tagTypes \cup {t}
    /\ UNCHANGED <<removedTypes, tagRefs>>

\* The core: the tag type leaves the view, and with it every tag of that
\* type.
BNRemoveTagType(t) ==
    /\ tagTypes' = tagTypes \ {t}
    /\ removedTypes' = IF t \in tagTypes THEN removedTypes \cup {t} ELSE removedTypes
    /\ tagRefs' = {r \in tagRefs : r.type # t}

\* The core: a tag at an address.  A tag type outlives its tags: a tag of
\* a type that is not in the view is not added.
BNAddDataTag(addr, t, user) ==
    /\ tagRefs' = IF t \in tagTypes THEN tagRefs \cup {TagRef(addr, t, user)} ELSE tagRefs
    /\ UNCHANGED <<tagTypes, removedTypes>>

BNAddUserDataTag(addr, t) == BNAddDataTag(addr, t, TRUE)
BNAddAutoDataTag(addr, t) == BNAddDataTag(addr, t, FALSE)

BNRemoveUserDataTag(addr, t) ==
    /\ tagRefs' = tagRefs \ {TagRef(addr, t, TRUE)}
    /\ UNCHANGED <<tagTypes, removedTypes>>

\* The wrappers of the view.
remove_tag_type_nocall(tag_type) == UNCHANGED <<tagTypes, removedTypes, tagRefs>>
remove_tag_type(tag_type) == BNRemoveTagType(tag_type)

add_user_data_tag(addr, tag) == BNAddUserDataTag(addr, tag)
add_auto_data_tag(addr, tag) == BNAddAutoDataTag(addr, tag)
remove_user_data_tag(addr, tag) == BNRemoveUserDataTag(addr, tag)

TagFrame == UNCHANGED <<analysisVars, notifyVars, searchVars, rd, nonTagRest>>

\* The tag types a caller holds: those of the view and those removed.
HeldTagTypes == tagTypes \cup removedTypes

\* create_tag_type(name, icon): a new tag type, added to the view.
CreateTagType ==
    /\ tagOp.n < MaxTagOps
    /\ Cardinality(HeldTagTypes) < MaxTagTypes
    /\ LET t == CHOOSE id \in TagTypeIds : id \notin HeldTagTypes
       IN  /\ BNAddTagType(t)
           /\ tagOp' = TagOp("create_tag_type", t, tagOp.n + 1)
    /\ TagFrame

RemoveTagType ==
    \E t \in HeldTagTypes :
        /\ tagOp.n < MaxTagOps
        /\ remove_tag_type(t)
        /\ tagOp' = TagOp("remove_tag_type", t, tagOp.n + 1)
        /\ TagFrame

\* create_tag(type, data) and add_user_data_tag(addr, tag)
AddUserDataTag ==
    \E addr \in TagAddrs, t \in HeldTagTypes :
        /\ tagOp.n < MaxTagOps
        /\ add_user_data_tag(addr, t)
        /\ tagOp' = TagOp("add_user_data_tag", t, tagOp.n + 1)
        /\ TagFrame

AddAutoDataTag ==
    \E addr \in TagAddrs, t \in HeldTagTypes :
        /\ tagOp.n < MaxTagOps
        /\ add_auto_data_tag(addr, t)
        /\ tagOp' = TagOp("add_auto_data_tag", t, tagOp.n + 1)
        /\ TagFrame

RemoveUserDataTag ==
    \E addr \in TagAddrs, t \in HeldTagTypes :
        /\ tagOp.n < MaxTagOps
        /\ remove_user_data_tag(addr, t)
        /\ tagOp' = TagOp("remove_user_data_tag", t, tagOp.n + 1)
        /\ TagFrame

InitTags ==
    /\ tagTypes = {}
    /\ removedTypes = {}
    /\ tagRefs = {}
    /\ tagOp = TagOp("none", 0, 0)

(***************************************************************************)
(* The undo log of the file the view belongs to.                           *)
(***************************************************************************)
MaxUndoOps == 6         \* operations on a view with an undo log

UserTags == {r \in tagRefs : r.user}
AutoTags == {r \in tagRefs : ~r.user}

\* One recorded mutation: the tag added or removed.
UndoEntry(added, ref) == [added |-> added, ref |-> ref]
\* One committed group: its mutations in order; before and after are the
\* user-defined tags when it began and when it was committed.
UndoGroup(entries, before, after) == [entries |-> entries, before |-> before, after |-> after]
UndoOp(op, n) == [op |-> op, n |-> n]

\* The tags after the mutations of a group are applied in order, or their
\* inverses in reverse order.
RECURSIVE ApplyEntries(_, _)
ApplyEntries(S, entries) ==
    IF entries = <<>> THEN S
    ELSE LET h == Head(entries)
         IN  ApplyEntries(IF h.added THEN S \cup {h.ref} ELSE S \ {h.ref}, Tail(entries))

RECURSIVE RevertEntries(_, _)
RevertEntries(S, entries) ==
    IF entries = <<>> THEN S
    ELSE LET h == entries[Len(entries)]
         IN  RevertEntries(IF h.added THEN S \ {h.ref} ELSE S \cup {h.ref},
                           SubSeq(entries, 1, Len(entries) - 1))

\* The file: a group of undo actions begins.
FileBeginUndoActions ==
    /\ uopen' = TRUE
    /\ upending' = <<>>
    /\ ubase' = UserTags
    /\ UNCHANGED <<ulog, uredo, tagRefs>>

\* The file: the open group enters the log as one unit; what was undone
\* can no longer be redone.
FileCommitUndoActions ==
    /\ uopen' = FALSE
    /\ upending' = <<>>
    /\ ubase' = {}
    /\ ulog' = IF uopen THEN Append(ulog, UndoGroup(upending, ubase, UserTags)) ELSE ulog
    /\ uredo' = IF uopen THEN <<>> ELSE uredo
    /\ tagRefs' = tagRefs

\* The file: the last committed group is reverted as a whole.
FileUndo ==
    IF ulog = <<>>
    THEN UNCHANGED <<uopen, upending, ubase, ulog, uredo, tagRefs>>
    ELSE LET g == ulog[Len(ulog)]
         IN  /\ tagRefs' = RevertEntries(tagRefs, g.entries)
             /\ ulog' = SubSeq(ulog, 1, Len(ulog) - 1)
             /\ uredo' = Append(uredo, g)
             /\ UNCHANGED <<uopen, upending, ubase>>

\* The file: the group undone last is applied again.
FileRedo ==
    IF uredo = <<>>
    THEN UNCHANGED <<uopen, upending, ubase, ulog, uredo, tagRefs>>
    ELSE LET g == uredo[Len(uredo)]
         IN  /\ tagRefs' = ApplyEntries(tagRefs, g.entries)
             /\ uredo' = SubSeq(uredo, 1, Len(uredo) - 1)
             /\ ulog' = Append(ulog, g)
             /\ UNCHANGED <<uopen, upending, ubase>>

\* The wrappers of the view.
begin_undo_actions == FileBeginUndoActions
commit_undo_actions == FileCommitUndoActions
undo_nocall == UNCHANGED <<uopen, upending, ubase, ulog, uredo, tagRefs>>
undo == FileUndo
redo == FileRedo

UndoFrame ==
    /\ UNCHANGED <<tagTypes, removedTypes, tagOp>>
    /\ UNCHANGED <<analysisVars, notifyVars, searchVars, rd, nonTagUndoRest>>

BeginUndoActions ==
    /\ uop.n < MaxUndoOps /\ ~uopen
    /\ begin_undo_actions
    /\ uop' = UndoOp("begin_undo_actions", uop.n + 1)
    /\ UndoFrame

CommitUndoActions ==
    /\ uop.n < MaxUndoOps /\ uopen
    /\ commit_undo_actions
    /\ uop' = UndoOp("commit_undo_actions", uop.n + 1)
    /\ UndoFrame

Undo ==
    /\ uop.n < MaxUndoOps /\ ~uopen
    /\ undo
    /\ uop' = UndoOp("undo", uop.n + 1)
    /\ UndoFrame

Redo ==
    /\ uop.n < MaxUndoOps /\ ~uopen
    /\ redo
    /\ uop' = UndoOp("redo", uop.n + 1)
    /\ UndoFrame

\* A user-attributed mutation inside the open group: add_user_data_tag or
\* remove_user_data_tag; the file records it when it changed the tags.
UserAddTag ==
    \E addr \in TagAddrs, t \in tagTypes :
        /\ uop.n < MaxUndoOps /\ uopen
        /\ add_user_data_tag(addr, t)
        /\ upending' = IF TagRef(addr, t, TRUE) \in tagRefs THEN upending
                       ELSE Append(upending, UndoEntry(TRUE, TagRef(addr, t, TRUE)))
        /\ uop' = UndoOp("add_user_data_tag", uop.n + 1)
        /\ UNCHANGED <<uopen, ubase, ulog, uredo, tagOp>>
        /\ UNCHANGED <<analysisVars, notifyVars, searchVars, rd, nonTagUndoRest>>

UserRemoveTag ==
    \E addr \in TagAddrs, t \in tagTypes :
        /\ uop.n < MaxUndoOps /\ uopen
        /\ remove_user_data_tag(addr, t)
        /\ upending' = IF TagRef(addr, t, TRUE) \notin tagRefs THEN upending
                       ELSE Append(upending, UndoEntry(FALSE, TagRef(addr, t, TRUE)))
        /\ uop' = UndoOp("remove_user_data_tag", uop.n + 1)
        /\ UNCHANGED <<uopen, ubase, ulog, uredo, tagOp>>
        /\ UNCHANGED <<analysisVars, notifyVars, searchVars, rd, nonTagUndoRest>>

\* An auto-attributed mutation, at any time: add_auto_data_tag; the file
\* records nothing.
AutoAddTag ==
    \E addr \in TagAddrs, t \in tagTypes :
        /\ uop.n < MaxUndoOps
        /\ add_auto_data_tag(addr, t)
        /\ uop' = UndoOp("add_auto_data_tag", uop.n + 1)
        /\ UNCHANGED <<uopen, upending, ubase, ulog, uredo, tagOp>>
        /\ UNCHANGED <<analysisVars, notifyVars, searchVars, rd, nonTagUndoRest>>

InitUndo ==
    /\ uopen = FALSE
    /\ upending = <<>>
    /\ ubase = {}
    /\ ulog = <<>>
    /\ uredo = <<>>
    /\ uop = UndoOp("none", 0)

(***************************************************************************)
(* The Completer of the console.  A string is the sequence of its          *)
(* characters.                                                             *)
(***************************************************************************)
MaxText == 4            \* characters of the text to complete

\* \w, and the other characters a text is made of.
WordChars == {"a", "_"}
TextChars == WordChars \cup {".", " "}
Texts == UNION {[1..n -> TextChars] : n \in 1..MaxText}

\* s[:k]
Take(s, k) == SubSeq(s, 1, IF k < Len(s) THEN k ELSE Len(s))
StartsWith(s, prefix) == Take(s, Len(prefix)) = prefix

\* not text.strip()
IsBlank(text) == \A i \in 1..Len(text) : text[i] = " "

\* keyword.kwlist, self.namespace and the builtins, in the order in which
\* the loops meet them; the names whose value is callable; dir() of the
\* objects.
KwList == << <<"a", "a">> >>
NamespaceItems == << <<"a">>, <<"_", "a">> >>
BuiltinItems == << <<"a">>, <<"a", "_">> >>
CallableNames == { <<"a", "_">>, <<"a", "a">> }
DirWords == { <<"a">>, <<"a", "a">>, <<"_", "a">> }

SeqRange(q) == {q[i] : i \in 1..Len(q)}

\* word + fnsignature(val) for a callable value
_callable_postfix(name, word) ==
    IF name \in CallableNames THEN word \o <<"(", ")">> ELSE word

\* global_matches(text)
global_matches(text) ==
    LET Hit(word) == Take(word, Len(text)) = text
        kw == SelectSeq(KwList, Hit)
        kwOut == [i \in 1..Len(kw) |-> kw[i] \o <<" ">>]
        seen1 == SeqRange(kw)
        HitNs(word) == Hit(word) /\ word \notin seen1
        ns == SelectSeq(NamespaceItems, HitNs)
        seen2 == seen1 \cup SeqRange(ns)
        HitBi(word) == Hit(word) /\ word \notin seen2
        bi == SelectSeq(BuiltinItems, HitBi)
        rest == ns \o bi
    IN  kwOut \o [i \in 1..Len(rest) |-> _callable_postfix(rest[i], rest[i])]

\* re.match(r"([\w\[\]]+(\.[\w\[\]]+)*)\.([\w\[\]]*)", text): the length of
\* group 1, 0 when there is no match.  The match starts at the first
\* character and need not reach the last one.
DottedName(p) ==
    /\ Len(p) > 0 /\ p[1] \in WordChars /\ p[Len(p)] \in WordChars
    /\ \A i \in 1..Len(p) : p[i] \in WordChars \cup {"."}
    /\ \A i \in 1..(Len(p) - 1) : ~(p[i] = "." /\ p[i + 1] = ".")
MatchCut(text) ==
    LET K == {k \in 1..(Len(text) - 1) : DottedName(SubSeq(text, 1, k)) /\ text[k + 1] = "."}
    IN  IF K = {} THEN 0 ELSE CHOOSE k \in K : \A j \in K : j <= k
\* Group 3: the word characters after the dot.
AttrOf(text, k) ==
    LET N == {n \in 0..(Len(text) - k - 1) : \A i \in 1..n : text[k + 1 + i] \in WordChars}
    IN  SubSeq(text, k + 2, k + 1 + (CHOOSE n \in N : \A j \in N : j <= n))

\* eval(expr, self.namespace): the names of expr between its dots; the
\* first is looked up in the namespace and the builtins, the others in the
\* object before them.
RECURSIVE Names(_)
Names(expr) ==
    IF expr = <<>> THEN <<>>
    ELSE LET D == {i \in 1..Len(expr) : expr[i] = "."}
         IN  IF D = {} THEN <<expr>>
             ELSE LET d == CHOOSE i \in D : \A j \in D : i <= j
                  IN  <<SubSeq(expr, 1, d - 1)>> \o Names(SubSeq(expr, d + 1, Len(expr)))
Evaluable(expr) ==
    LET ns == Names(expr)
    IN  /\ ns[1] \in SeqRange(NamespaceItems) \cup SeqRange(BuiltinItems)
        /\ \A i \in 2..Len(ns) : ns[i] \in DirWords

\* matches.sort(): the order of the characters, and of the strings.
Ord(c) == CASE c = " " -> 32 [] c = "(" -> 40 [] c = ")" -> 41
            [] c = "." -> 46 [] c = "_" -> 95 [] c = "a" -> 97
RECURSIVE Less(_, _)
Less(s, t) ==
    IF t = <<>> THEN FALSE
    ELSE IF s = <<>> THEN TRUE
    ELSE IF Head(s) # Head(t) THEN Ord(Head(s)) < Ord(Head(t))
    ELSE Less(Tail(s), Tail(t))
Sorted(S) ==
    CHOOSE q \in [1..Cardinality(S) -> S] :
        \A i \in 1..(Cardinality(S) - 1) : Less(q[i], q[i + 1])

\* attr_matches(text)
AttrWords(attr, noprefix) ==
    {word \in DirWords :
        /\ Take(word, Len(attr)) = attr
        /\ ~(noprefix # <<>> /\ Take(word, Len(attr) + 1) = noprefix)}
attr_matches_with(text, k) ==
    IF k = 0 THEN <<>>
    ELSE LET expr == SubSeq(text, 1, k)
             attr == AttrOf(text, k)
             first == IF attr = <<>> THEN <<"_">>
                      ELSE IF attr = <<"_">> THEN <<"_", "_">> ELSE <<>>
             second == IF first = <<"_">> THEN <<"_", "_">> ELSE <<>>
             words == IF AttrWords(attr, first) # {} \/ first = <<>>
                      THEN AttrWords(attr, first)
                      ELSE IF AttrWords(attr, second) # {} \/ second = <<>>
                      THEN AttrWords(attr, second)
                      ELSE AttrWords(attr, <<>>)
         IN  IF ~Evaluable(expr) THEN <<>>
             ELSE Sorted({_callable_postfix(word, expr \o <<".">> \o word) : word \in words})
attr_matches(text) == attr_matches_with(text, MatchCut(text))

\* What complete returns: a string, or None.
Completion(s) == [isNone |-> FALSE, val |-> s]
NoCompletion == [isNone |-> TRUE, val |-> <<>>]

CompFrame == UNCHANGED <<analysisVars, notifyVars, searchVars, rd, nonCompRest>>

\* One call of complete(text, state) by a caller that starts with state 0
\* and goes on with the next state until None is returned.
Complete ==
    \E text \in Texts :
        /\ cret.isNone => cstate = 0 - 1
        /\ cstate >= 0 => text = ctext
        /\ LET state == cstate + 1
               matches == IF IsBlank(text) \/ state # 0 THEN cmatches
                          ELSE IF "." \in SeqRange(text) THEN attr_matches(text)
                          ELSE global_matches(text)
           IN  /\ ctext' = text
               /\ cstate' = state
               /\ cmatches' = matches
               /\ ncomputed' = IF IsBlank(text) \/ state # 0
                               THEN ncomputed ELSE ncomputed + 1
               /\ cret' = IF IsBlank(text)
                          THEN (IF state = 0 THEN Completion(<<"\t">>) ELSE NoCompletion)
                          ELSE IF state + 1 \in 1..Len(matches)
                          THEN Completion(matches[state + 1])
                          ELSE NoCompletion
        /\ CompFrame

InitCompleter ==
    /\ ctext = <<>>
    /\ cstate = 0 - 1
    /\ cmatches = <<>>
    /\ cret = NoCompletion
    /\ ncomputed = 0

(***************************************************************************)
(* ASCII strings of the view: get_ascii_string_at.                         *)
(***************************************************************************)
\* The bytes a view of strings holds: NUL, the first and the last ASCII
\* character, and the first byte that is not ASCII.
AsciiBytes == {0, 1, 127, 128}
AsciiLayouts == UNION {[1..n -> AsciiBytes] : n \in 0..MaxLen}

\* max_length: None, or a length.
NoMax == [isNone |-> TRUE, val |-> 0]
MaxLengths == {NoMax} \cup {[isNone |-> FALSE, val |-> n] : n \in 0..MaxLen}

\* BinaryReader.read8 at position pos: the byte there, None where the view
\* has no byte to read.
NoByte == [isNone |-> TRUE, val |-> 0]
read8(m, pos) ==
    IF pos >= perform_get_start /\ MappedAt(m, pos - perform_get_start)
    THEN [isNone |-> FALSE, val |-> m[pos - perform_get_start + 1]]
    ELSE NoByte

\* The loop of get_ascii_string_at, entered with c read at pos - 1:
\* while c is not None and c > 0 and c <= 0x7f:
\*     if length == max_length: break
\*     length += 1; c = br.read8()
RECURSIVE ascii_loop(_, _, _, _)
ascii_loop(m, pos, length, max_length) ==
    LET c == read8(m, pos)
    IN  IF /\ ~c.isNone /\ c.val > 0 /\ c.val <= 127
           /\ ~(~max_length.isNone /\ length = max_length.val)
        THEN ascii_loop(m, pos + 1, length + 1, max_length)
        ELSE [length |-> length, c |-> c]

StringReference(start, length) == [isNone |-> FALSE, start |-> start, length |-> length]
NoString == [isNone |-> TRUE, start |-> 0, length |-> 0]

get_ascii_string_at_nocheck(m, addr, min_length, max_length, require_cstring) ==
    IF addr < perform_get_start \/ addr >= perform_get_start + Len(m)
    THEN NoString
    ELSE LET s == ascii_loop(m, addr, 0, max_length)
         IN  IF s.length < min_length THEN NoString
             ELSE StringReference(addr, s.length)
get_ascii_string_at(m, addr, min_length, max_length, require_cstring) ==
    IF addr < perform_get_start \/ addr >= perform_get_start + Len(m)
    THEN NoString
    ELSE LET s == ascii_loop(m, addr, 0, max_length)
         IN  IF s.length < min_length THEN NoString
             ELSE IF require_cstring /\ ~(~s.c.isNone /\ s.c.val = 0) THEN NoString
             ELSE StringReference(addr, s.length)

AsciiCall(addr, min_length, max_length, require_cstring, ret) ==
    [called |-> TRUE, addr |-> addr, min_length |-> min_length,
     max_length |-> max_length, require_cstring |-> require_cstring, ret |-> ret]
NoAsciiCall == [called |-> FALSE, addr |-> 0, min_length |-> 0,
                max_length |-> NoMax, require_cstring |-> FALSE, ret |-> NoString]

AsciiFrame == UNCHANGED <<analysisVars, notifyVars, searchVars, rd, nonAscRest>>

\* A call of get_ascii_string_at, at an address of the view or next to it.
\* The call leaves the view as it is: one call of a behaviour shows them all.
GetAsciiStringAt ==
    \E addr \in (perform_get_start - 1)..ViewEnd, min_length \in 0..MaxLen,
       max_length \in MaxLengths, require_cstring \in BOOLEAN :
        /\ ~asc.called
        /\ asc' = AsciiCall(addr, min_length, max_length, require_cstring,
                            get_ascii_string_at(mem, addr, min_length, max_length,
                                                require_cstring))
        /\ AsciiFrame

InitAscii == asc = NoAsciiCall

(***************************************************************************)
(* The callbacks of a custom backend: _read .. _save, which the core calls *)
(* and which call the perform_* methods a subclass overrides.              *)
(***************************************************************************)
ByteCallbacks == {"read", "write", "insert", "remove"}
PredicateCallbacks == {"is_valid_offset", "is_offset_readable", "is_offset_writable",
                       "is_offset_executable"}
FlagCallbacks == {"is_executable", "is_relocatable", "save"}
NumberCallbacks == {"get_start", "get_length", "get_entry_point", "get_address_size",
                    "get_next_valid_offset"}
StatusCallbacks == {"get_modification", "get_default_endianness"}
Callbacks == ByteCallbacks \cup PredicateCallbacks \cup FlagCallbacks
                 \cup NumberCallbacks \cup StatusCallbacks

\* The values that cross the boundary.
IntVal(n) == [t |-> "int", n |-> n, b |-> FALSE, s |-> "none"]
BoolVal(b) == [t |-> "bool", n |-> 0, b |-> b, s |-> "none"]
EnumVal(s) == [t |-> "enum", n |-> 0, b |-> FALSE, s |-> s]

\* What an overridden perform_* method may return.
ReturnsOf(name) ==
    CASE name \in PredicateCallbacks \cup FlagCallbacks -> {BoolVal(b) : b \in BOOLEAN}
      [] name = "get_modification" ->
            {EnumVal(s) : s \in {"Original", "Changed", "Inserted"}}
      [] name = "get_default_endianness" ->
            {EnumVal(s) : s \in {"LittleEndian", "BigEndian"}}
      [] OTHER -> {IntVal(n) : n \in 0..MaxLen}

\* What perform_read may return: None, or data of any length.
ReadData == UNION {[1..n -> Bytes] : n \in 0..(MaxLen + 1)}
NoData == [isNone |-> TRUE, data |-> <<>>]
SomeData(d) == [isNone |-> FALSE, data |-> d]

\* The value each callback returns in its except clause.
sentinel(name, offset) ==
    CASE name \in {"read", "write", "insert", "remove", "get_start", "get_length",
                   "get_entry_point"} -> IntVal(0)
      [] name \in PredicateCallbacks \cup FlagCallbacks -> BoolVal(FALSE)
      [] name = "get_next_valid_offset" -> IntVal(offset)
      [] name = "get_modification" -> EnumVal("Original")
      [] name = "get_default_endianness" -> EnumVal("LittleEndian")
      [] name = "get_address_size" -> IntVal(8)

\* The outcome of a callback: the value the core receives, the bytes moved
\* to the core's buffer, whether an error was logged, and whether an
\* exception left the callback.
Outcome(ret, copied, log, esc) ==
    [ret |-> ret, copied |-> copied, logged |-> log, escaped |-> esc]

\* try: <body> / except: log.log_error(traceback.format_exc()); return <sentinel>
\* raised: the body raised; ret, copied: what the body did when it did not.
boundary_reraise(name, offset, raised, ret, copied) ==
    IF raised THEN Outcome(sentinel(name, offset), <<>>, TRUE, TRUE)
    ELSE Outcome(ret, copied, FALSE, FALSE)
boundary(name, offset, raised, ret, copied) ==
    IF raised THEN Outcome(sentinel(name, offset), <<>>, TRUE, FALSE)
    ELSE Outcome(ret, copied, FALSE, FALSE)

\* The data _read moves to dest: data[0:length] when len(data) > length.
truncated_never(data, length) == data
truncated(data, length) ==
    IF Len(data) > length THEN SubSeq(data, 1, length) ELSE data

\* _read(ctxt, dest, offset, length), perform_read returning out or raising.
_read(offset, length, raised, out) ==
    IF ~raised /\ out.isNone
    THEN boundary("read", offset, FALSE, IntVal(0), <<>>)
    ELSE LET data == truncated(out.data, length)
         IN  boundary("read", offset, raised, IntVal(Len(data)), data)

\* The other callbacks: return self.perform_<name>(...).
other_callback(name, offset, raised, out) == boundary(name, offset, raised, out, <<>>)

BackendCall(name, offset, length, raised, out, data, res) ==
    [called |-> TRUE, name |-> name, offset |-> offset, length |-> length,
     raised |-> raised, out |-> out, data |-> data, res |-> res]
NoBackendCall ==
    [called |-> FALSE, name |-> "read", offset |-> 0, length |-> 0,
     raised |-> FALSE, out |-> IntVal(0), data |-> NoData,
     res |-> Outcome(IntVal(0), <<>>, FALSE, FALSE)]

BackendFrame == UNCHANGED <<analysisVars, notifyVars, searchVars, rd, nonCbRest>>

\* The core reads length bytes at offset through the callback.
CoreRead ==
    \E offset \in Addrs, length \in 0..MaxLen, raised \in BOOLEAN,
       out \in {NoData} \cup {SomeData(d) : d \in ReadData} :
        /\ ~bcall.called
        /\ raised => out = NoData
        /\ bcall' = BackendCall("read", offset, length, raised, IntVal(0), out,
                             _read(offset, length, raised, out))
        /\ BackendFrame

\* The core calls one of the other callbacks.
CoreCallback ==
    \E name \in Callbacks \ {"read"}, offset \in Addrs, raised \in BOOLEAN :
        \E out \in IF raised THEN {IntVal(0)} ELSE ReturnsOf(name) :
            /\ ~bcall.called
            /\ bcall' = BackendCall(name, offset, 0, raised, out, NoData,
                                 other_callback(name, offset, raised, out))
            /\ BackendFrame

\* The callback has returned to the core.
CallbackReturn ==
    /\ bcall.called
    /\ ~bcall.res.escaped
    /\ bcall' = NoBackendCall
    /\ BackendFrame

InitBackend == bcall = NoBackendCall

InitOwners ==
    /\ owner = [c \in Cbs |-> 0]
    /\ torn = FALSE
    /\ overwrote = FALSE

(***************************************************************************)
(* FlowGraph.layout_and_wait: the caller waits on a condition variable for *)
(* the core's layout thread, which runs the completion callback.           *)
(***************************************************************************)
NumGraphs == 2          \* flow graphs laid out at the same time

Graphs == 1..NumGraphs

FgFrame == UNCHANGED <<analysisVars, notifyVars, searchVars, rd, nonFgRest>>

\* self._wait_cond = threading.Condition(); self.on_complete(self._wait_complete);
\* self.layout(): the callback is set and the core starts its layout thread.
LayoutAndWait ==
    \E g \in Graphs :
        /\ caller[g] = "out"
        /\ caller' = [caller EXCEPT ![g] = "started"]
        /\ layouter' = [layouter EXCEPT ![g] = "running"]
        /\ UNCHANGED <<condLock, layoutComplete>>
        /\ FgFrame

\* ---- the caller ----

\* self._wait_cond.acquire(), and the lock taken again when wait() returns.
CallerAcquire(g) ==
    /\ caller[g] \in {"started", "woken"}
    /\ condLock[g] = "free"
    /\ condLock' = [condLock EXCEPT ![g] = "caller"]
    /\ caller' = [caller EXCEPT ![g] = "locked"]
    /\ UNCHANGED <<layouter, layoutComplete>>
    /\ FgFrame

\* while not self.complete
keeps_waiting_always(g) == TRUE
keeps_waiting(g) == ~layoutComplete[g]

\* self._wait_cond.wait(): the lock is released and the caller sleeps.
CallerWait(g) ==
    /\ caller[g] = "locked"
    /\ keeps_waiting(g)
    /\ condLock' = [condLock EXCEPT ![g] = "free"]
    /\ caller' = [caller EXCEPT ![g] = "waiting"]
    /\ UNCHANGED <<layouter, layoutComplete>>
    /\ FgFrame

\* The loop ends: self._wait_cond.release(), and layout_and_wait returns.
CallerReturn(g) ==
    /\ caller[g] = "locked"
    /\ ~keeps_waiting(g)
    /\ condLock' = [condLock EXCEPT ![g] = "free"]
    /\ caller' = [caller EXCEPT ![g] = "returned"]
    /\ UNCHANGED <<layouter, layoutComplete>>
    /\ FgFrame

\* ---- the core's layout thread ----

\* The layout is complete: the core marks the graph and goes on to call the
\* completion callback, _complete.
CoreLayoutComplete(g) ==
    /\ layouter[g] = "running"
    /\ layoutComplete' = [layoutComplete EXCEPT ![g] = TRUE]
    /\ layouter' = [layouter EXCEPT ![g] = "callback"]
    /\ UNCHANGED <<caller, condLock>>
    /\ FgFrame

\* _complete calls _wait_complete: self._wait_cond.acquire()
CallbackAcquire(g) ==
    /\ layouter[g] = "callback"
    /\ condLock[g] = "free"
    /\ condLock' = [condLock EXCEPT ![g] = "layouter"]
    /\ layouter' = [layouter EXCEPT ![g] = "locked"]
    /\ UNCHANGED <<caller, layoutComplete>>
    /\ FgFrame

\* self._wait_cond.notify(): a thread that sleeps in wait() is woken.
cond_notify_nobody(w) == w
cond_notify(w) == IF w = "waiting" THEN "woken" ELSE w

\* _wait_complete: self._wait_cond.notify(); self._wait_cond.release()
CallbackNotify(g) ==
    /\ layouter[g] = "locked"
    /\ caller' = [caller EXCEPT ![g] = cond_notify(@)]
    /\ condLock' = [condLock EXCEPT ![g] = "free"]
    /\ layouter' = [layouter EXCEPT ![g] = "finished"]
    /\ UNCHANGED layoutComplete
    /\ FgFrame

CallerAcquires == \E g \in Graphs : CallerAcquire(g)
CallerWaits == \E g \in Graphs : CallerWait(g)
CallerReturns == \E g \in Graphs : CallerReturn(g)
CoreLayoutCompletes == \E g \in Graphs : CoreLayoutComplete(g)
CallbackAcquires == \E g \in Graphs : CallbackAcquire(g)
CallbackNotifies == \E g \in Graphs : CallbackNotify(g)

InitGraphs ==
    /\ caller = [g \in Graphs |-> "out"]
    /\ layouter = [g \in Graphs |-> "none"]
    /\ condLock = [g \in Graphs |-> "free"]
    /\ layoutComplete = [g \in Graphs |-> FALSE]

InitTypes == typeTab = [id \in TypeIds |-> ConcreteType]

InitScan ==
    /\ nvo = NoNvo
    /\ scanning = FALSE
    /\ scanPos = 0

get_data_var_at_unchecked(addr) ==
    LET var == BNGetDataVariableAtAddress(autoVars, userVars, addr)
    IN DataVariable(var.type, var.auto)

get_data_var_at(addr) ==
    LET var == BNGetDataVariableAtAddress(autoVars, userVars, addr)
    IN IF ~var.found THEN PyNone ELSE DataVariable(var.type, var.auto)

\* ---- BinaryDataNotificationCallbacks ----

\* The BinaryDataNotification method each wrapper calls.
HandlerMisrouted(kind) ==
    IF kind = "data_var_removed" THEN "data_var_added"
    ELSE IF kind = "data_removed" THEN "data_inserted"
    ELSE kind

HandlerFor(kind) ==
    CASE kind = "data_written" -> "data_written"
      [] kind = "data_inserted" -> "data_inserted"
      [] kind = "data_removed" -> "data_removed"
      [] kind = "function_added" -> "function_added"
      [] kind = "function_removed" -> "function_removed"
      [] kind = "function_updated" -> "function_updated"
      [] kind = "function_update_requested" -> "function_update_requested"
      [] kind = "data_var_added" -> "data_var_added"
      [] kind = "data_var_removed" -> "data_var_removed"
      [] kind = "data_var_updated" -> "data_var_updated"
      [] kind = "data_metadata_updated" -> "data_metadata_updated"
      [] kind = "tag_type_updated" -> "tag_type_updated"
      [] kind = "tag_added" -> "tag_added"
      [] kind = "tag_updated" -> "tag_updated"
      [] kind = "tag_removed" -> "tag_removed"
      [] kind = "symbol_added" -> "symbol_added"
      [] kind = "symbol_updated" -> "symbol_updated"
      [] kind = "symbol_removed" -> "symbol_removed"
      [] kind = "string_found" -> "string_found"
      [] kind = "string_removed" -> "string_removed"
      [] kind = "type_defined" -> "type_defined"
      [] kind = "type_undefined" -> "type_undefined"
      [] kind = "type_ref_changed" -> "type_ref_changed"

\* The (offset, length) a wrapper of a byte event hands to the handler.
HandlerArgsSwapped(offset, length) == <<length, offset>>

HandlerArgs(offset, length) == <<offset, length>>

\* The exceptions the wrapper of an event kind catches and logs:
\* _data_written has "except OSError", every other wrapper a bare "except".
Catches(kind, exc) ==
    IF kind = "data_written" THEN exc = "OSError" ELSE TRUE

\* What the handler of callback object c receives for the event ev.
Received(ev) ==
    LET args == HandlerArgs(ev.a, ev.n)
    IN Event(HandlerFor(ev.kind), args[1], args[2], ev.t)

\* ---- the core's notification: begin, deliver, return ----

\* The core admits one mutating call at a time: a call issued while another
\* one is applied or notified waits until that one has returned.
CoreLockFree_none == TRUE

CoreLockFree == mpc = "idle"

\* The mutation has been applied; the event ev goes to the callback objects
\* registered now.
Emit(call) ==
    /\ mpc' = "delivering"
    /\ cur' = call
    /\ dq' = registered
    /\ received' = {}
    /\ logged' = 0
    /\ escaped' = 0
    /\ issued' = IF call.ev.kind \in VarKinds THEN Append(issued, call.ev) ELSE issued

NoEmit ==
    /\ UNCHANGED <<mpc, cur, dq, received, logged, escaped, issued>>

\* The core calls the next callback object: its wrapper calls the observer's
\* handler, which returns or raises.
Deliver ==
    /\ mpc = "delivering"
    /\ dq # <<>>
    /\ LET c == Head(dq) IN
       \E outcome \in Outcomes :
          /\ cbLog' = IF cur.ev.kind \in VarKinds
                       THEN [cbLog EXCEPT ![c] = Append(@, Received(cur.ev))]
                       ELSE cbLog
          /\ received' = received \cup {c}
          /\ dq' = Tail(dq)
          /\ IF outcome = "ok"
             THEN UNCHANGED <<logged, escaped>>
             ELSE IF Catches(cur.ev.kind, outcome)
             THEN logged' = logged + 1 /\ escaped' = escaped
             ELSE escaped' = escaped + 1 /\ logged' = logged
    /\ UNCHANGED <<storeVars, notifications, nextCb, mpc, cur>>
    /\ UNCHANGED <<cbSpan, issued, lastOp, nops>>
    /\ UNCHANGED <<nonNotifyVars, blocked>>

\* Every callback object has been called: the mutating call returns.
MutationReturn ==
    /\ mpc = "delivering"
    /\ dq = <<>>
    /\ mpc' = "idle"
    /\ cur' = NoCall
    /\ received' = {}
    /\ logged' = 0
    /\ escaped' = 0
    /\ UNCHANGED <<storeVars, notifications, nextCb, dq, notifyHist>>
    /\ UNCHANGED <<nonNotifyVars, blocked>>

\* ---- BinaryView: registration of observers ----

BNRegisterDataNotification(c) == registered' = Append(registered, c)

\* A delivery in progress goes on over the callback objects that were
\* registered when it began.
BNUnregisterDataNotification_erase(c) ==
    /\ registered' = SelectSeq(registered, LAMBDA x : x # c)
    /\ dq' = IF mpc = "delivering" /\ c \in received /\ dq # <<>> THEN Tail(dq) ELSE dq

BNUnregisterDataNotification(c) ==
    /\ registered' = SelectSeq(registered, LAMBDA x : x # c)
    /\ dq' = dq

register_notification_noreg(notify) ==
    LET c == nextCb + 1 IN
    /\ nextCb' = c
    /\ registered' = registered
    /\ notifications' = [notifications EXCEPT ![notify] = c]
    /\ cbSpan' = [cbSpan EXCEPT ![c] = <<Len(issued), -1>>]

register_notification(notify) ==
    LET c == nextCb + 1 IN
    /\ nextCb' = c
    /\ BNRegisterDataNotification(c)
    /\ notifications' = [notifications EXCEPT ![notify] = c]
    /\ cbSpan' = [cbSpan EXCEPT ![c] = <<Len(issued), -1>>]

unregister_notification(notify) ==
    IF notifications[notify] # 0
    THEN /\ BNUnregisterDataNotification(notifications[notify])
         /\ notifications' = [notifications EXCEPT ![notify] = 0]
         /\ cbSpan' = [cbSpan EXCEPT ![notifications[notify]] = <<@[1], Len(issued)>>]
         /\ nextCb' = nextCb
    ELSE UNCHANGED <<registered, dq, notifications, cbSpan, nextCb>>

RegisterNotification ==
    \E notify \in Obs :
        /\ mpc = "idle"
        /\ nextCb < MaxRegs
        /\ register_notification(notify)
        /\ UNCHANGED <<mem, modif, autoVars, userVars, deliverVars>>
        /\ UNCHANGED <<logged, escaped, cbLog, issued, lastOp, nops>>
        /\ UNCHANGED <<nonNotifyVars, blocked>>

UnregisterNotification ==
    \E notify \in Obs :
        /\ mpc = "idle"
        /\ unregister_notification(notify)
        /\ UNCHANGED <<mem, modif, autoVars, userVars, mpc, cur, received>>
        /\ UNCHANGED <<logged, escaped, cbLog, issued, lastOp, nops>>
        /\ UNCHANGED <<nonNotifyVars, blocked>>

\* unregister_notification called while an event is being delivered, from a
\* handler or from another thread.
UnregisterInFlight ==
    \E notify \in Obs :
        /\ mpc = "delivering"
        /\ notifications[notify] # 0
        /\ unregister_notification(notify)
        /\ UNCHANGED <<mem, modif, autoVars, userVars, mpc, cur, received>>
        /\ UNCHANGED <<logged, escaped, cbLog, issued, lastOp, nops>>
        /\ UNCHANGED <<nonNotifyVars, blocked>>

\* ---- BinaryView: write, insert, remove ----

\* The core writes the bytes that fit, updates the modification log and
\* notifies.
BNWriteViewBuffer(addr, data) ==
    LET n == WriteLen(addr, data) IN
    /\ mem' = WriteMem(addr, data)
    /\ modif' = WriteModif(addr, data)
    /\ IF n > 0
       THEN Emit([ev |-> Event("data_written", addr, n, "None"),
                  data |-> SubSeq(data, 1, n),
                  before |-> SubSeq(mem, addr + 1, addr + n),
                  lenBefore |-> Len(mem)])
       ELSE NoEmit
    /\ lastOp' = lastOp

BNInsertViewBuffer(addr, data) ==
    LET n == InsertLen(addr, data) IN
    /\ mem' = IF n > 0 THEN InsertSeq(mem, addr, data) ELSE mem
    /\ modif' = IF n > 0 THEN InsertSeq(modif, addr, [i \in 1..n |-> "Inserted"]) ELSE modif
    /\ IF n > 0
       THEN Emit([ev |-> Event("data_inserted", addr, n, "None"),
                  data |-> data, before |-> <<>>, lenBefore |-> Len(mem)])
       ELSE NoEmit
    /\ lastOp' = lastOp

BNRemoveViewData(addr, length) ==
    LET k == RemoveLen(addr, length) IN
    /\ mem' = IF k > 0 THEN RemoveSeq(mem, addr, k) ELSE mem
    /\ modif' = IF k > 0 THEN RemoveSeq(modif, addr, k) ELSE modif
    /\ IF k > 0
       THEN Emit([ev |-> Event("data_removed", addr, k, "None"),
                  data |-> <<>>, before |-> SubSeq(mem, addr + 1, addr + k),
                  lenBefore |-> Len(mem)])
       ELSE NoEmit
    /\ lastOp' = lastOp

\* write(addr, data): data that is no bytes, bytearray or str raises TypeError.
write_unwritten(addr, data, isBytes) ==
    /\ UNCHANGED <<mem, modif>>
    /\ NoEmit
    /\ lastOp' = lastOp

write(addr, data, isBytes) ==
    IF ~isBytes
    THEN /\ UNCHANGED <<mem, modif>>
         /\ NoEmit
         /\ lastOp' = lastOp
    ELSE BNWriteViewBuffer(addr, data)

insert_unchecked(addr, data, isBytes) == BNInsertViewBuffer(addr, data)
insert(addr, data, isBytes) ==
    IF ~isBytes
    THEN /\ UNCHANGED <<mem, modif>>
         /\ NoEmit
         /\ lastOp' = lastOp
    ELSE BNInsertViewBuffer(addr, data)

remove(addr, length) == BNRemoveViewData(addr, length)

Write ==
    \E addr \in Addrs, data \in DataSeqs, isBytes \in BOOLEAN :
        /\ CoreLockFree /\ nops < MaxOps
        /\ write(addr, data, isBytes)
        /\ nops' = nops + 1
        /\ UNCHANGED <<autoVars, userVars, registered, notifications, nextCb>>
        /\ UNCHANGED <<cbLog, cbSpan>>
        /\ UNCHANGED <<nonNotifyVars, blocked>>

Insert ==
    \E addr \in Addrs, data \in DataSeqs, isBytes \in BOOLEAN :
        /\ CoreLockFree /\ nops < MaxOps
        /\ insert(addr, data, isBytes)
        /\ nops' = nops + 1
        /\ UNCHANGED <<autoVars, userVars, registered, notifications, nextCb>>
        /\ UNCHANGED <<cbLog, cbSpan>>
        /\ UNCHANGED <<nonNotifyVars, blocked>>

Remove ==
    \E addr \in Addrs, length \in 1..MaxData :
        /\ CoreLockFree /\ nops < MaxOps
        /\ remove(addr, length)
        /\ nops' = nops + 1
        /\ UNCHANGED <<autoVars, userVars, registered, notifications, nextCb>>
        /\ UNCHANGED <<cbLog, cbSpan>>
        /\ UNCHANGED <<nonNotifyVars, blocked>>

(***************************************************************************)
(* A caller at the API boundary: its calls and what they raised.           *)
(***************************************************************************)
MaxCalls == 2           \* calls of that caller

\* if not (isinstance(data, bytes) or ...): raise TypeError
write_result(isBytes) == IF ~isBytes THEN "TypeError" ELSE "ok"

\* The call, whether its arguments meet the contract of the function, and
\* the exception it raised ("ok": none).
ApiCall(fn, valid, raised, n) == [fn |-> fn, valid |-> valid, raised |-> raised, n |-> n]
NoApiCall == ApiCall("none", TRUE, "ok", 0)

\* A Platform is given, or the view has one to stand in for it.
PlatformOk(viewPlatform, plat) ==
    IF plat = "None" THEN viewPlatform = "P" ELSE plat = "P"

ApiAnalysisFrame ==
    /\ UNCHANGED <<fired, cancelReturned, holdReq, updWhileHeld, abortPending, rerun>>
    /\ UNCHANGED <<nfuncs, evVars, wpc>>
    /\ UNCHANGED <<notifyVars, searchVars, rd, nonApiRest>>

ApiAddFunction ==
    \E viewPlatform \in {"None", "P"}, plat \in {"None", "P", "Bad"} :
        /\ api.n < MaxCalls
        /\ add_function(viewPlatform, plat)
        /\ addedSince' = (addedSince \/ add_function_result(viewPlatform, plat) = "ok")
        /\ api' = ApiCall("add_function", PlatformOk(viewPlatform, plat),
                         add_function_result(viewPlatform, plat), api.n + 1)
        /\ ApiAnalysisFrame

ApiAddEntryPoint ==
    \E viewPlatform \in {"None", "P"}, plat \in {"None", "P", "Bad"} :
        /\ api.n < MaxCalls
        /\ add_entry_point(viewPlatform, plat)
        /\ addedSince' = (addedSince \/ add_function_result(viewPlatform, plat) = "ok")
        /\ api' = ApiCall("add_entry_point", PlatformOk(viewPlatform, plat),
                         add_function_result(viewPlatform, plat), api.n + 1)
        /\ ApiAnalysisFrame

ApiStoreFrame ==
    /\ UNCHANGED <<autoVars, userVars, registered, notifications, nextCb>>
    /\ UNCHANGED <<cbLog, cbSpan, nops, blocked>>
    /\ UNCHANGED <<analysisVars, searchVars, rd, nonApiRest>>

ApiWrite ==
    \E addr \in Addrs, data \in DataSeqs, isBytes \in BOOLEAN :
        /\ CoreLockFree /\ api.n < MaxCalls
        /\ write(addr, data, isBytes)
        /\ api' = ApiCall("write", isBytes, write_result(isBytes), api.n + 1)
        /\ ApiStoreFrame

ApiInsert ==
    \E addr \in Addrs, data \in DataSeqs, isBytes \in BOOLEAN :
        /\ CoreLockFree /\ api.n < MaxCalls
        /\ insert(addr, data, isBytes)
        /\ api' = ApiCall("insert", isBytes, write_result(isBytes), api.n + 1)
        /\ ApiStoreFrame

\* A caller's write(addr, data) with data of type bytes.  inWritable tells
\* whether [addr, addr + len(data)) lay in writable segments at the call.
WriteCallRec(addr, data, inWritable) ==
    [called |-> TRUE, addr |-> addr, data |-> data, inWritable |-> inWritable]
NoWrite == [called |-> FALSE, addr |-> 0, data |-> <<>>, inWritable |-> FALSE]

InWritableSegment(addr) ==
    \E g \in autoSegs \cup userSegs :
        /\ SegContains(g, addr)
        /\ "w" \in get_segment_at(addr).seg.flags

WriteCall ==
    \E addr \in Addrs, data \in DataSeqs :
        /\ wr = NoWrite
        /\ CoreLockFree /\ nops < MaxOps
        /\ write(addr, data, TRUE)
        /\ nops' = nops + 1
        /\ wr' = WriteCallRec(addr, data,
                               \A i \in 0..(Len(data) - 1) : InWritableSegment(addr + i))
        /\ rd' = NoRead
        /\ UNCHANGED <<autoVars, userVars, registered, notifications, nextCb>>
        /\ UNCHANGED <<cbLog, cbSpan, blocked>>
        /\ UNCHANGED <<analysisVars, searchVars, nonRwRest>>

\* The caller reads back what it wrote: read(addr, len(data)).
ReadBack ==
    /\ wr # NoWrite
    /\ rd' = IF read_rejects(wr.addr, Len(wr.data))
             THEN ReadCall(wr.addr, Len(wr.data), "ValueError", FALSE, <<>>)
             ELSE ReadCall(wr.addr, Len(wr.data), "none", TRUE, read(wr.addr, Len(wr.data)))
    /\ UNCHANGED <<analysisVars, notifyVars, searchVars, restVars>>

\* ---- BinaryView: data variables ----
NoBlocked == [op |-> "none", a |-> 0, data |-> <<>>, t |-> "None"]
BlockedCalls ==
    {[op |-> "write", a |-> a, data |-> <<b>>, t |-> "None"] : a \in {0, 1}, b \in Bytes}
    \cup {[op |-> "define_user_data_var", a |-> a, data |-> <<>>, t |-> t] :
              a \in VarAddrs, t \in Types}


\* A define or undefine that leaves the tables av, uv; it succeeds (and
\* emits one event) when ok.
VarMutation(op, addr, t, av, uv, ok) ==
    LET pre == BNGetDataVariableAtAddress(autoVars, userVars, addr)
        post == BNGetDataVariableAtAddress(av, uv, addr)
    IN /\ autoVars' = av
       /\ userVars' = uv
       /\ IF ok
          THEN Emit([ev |-> Event(VarEventKind(pre, post), addr, 0,
                                  IF post.found THEN post.type ELSE pre.type),
                     data |-> <<>>, before |-> <<>>, lenBefore |-> Len(mem)])
          ELSE NoEmit
       /\ lastOp' = [op |-> op, a |-> addr, t |-> t, ok |-> ok, n |-> Len(issued),
                     pre |-> pre, shadowed |-> autoVars[addr] # "None" /\ userVars[addr] # "None"]

BNDefineDataVariable(addr, t) ==
    VarMutation("define_data_var", addr, t,
                [autoVars EXCEPT ![addr] = t], userVars, TRUE)

BNDefineUserDataVariable(addr, t) ==
    VarMutation("define_user_data_var", addr, t,
                autoVars, [userVars EXCEPT ![addr] = t], TRUE)

\* Removes the auto record, when no user record shadows it.
BNUndefineDataVariable(addr) ==
    LET ok == autoVars[addr] # "None" /\ userVars[addr] = "None"
    IN VarMutation("undefine_data_var", addr, "None",
                   IF ok THEN [autoVars EXCEPT ![addr] = "None"] ELSE autoVars,
                   userVars, ok)

\* Removes the user record and the auto record it shadows: a true delete.
BNUndefineUserDataVariable(addr) ==
    LET ok == userVars[addr] # "None"
    IN VarMutation("undefine_user_data_var", addr, "None",
                   IF ok THEN [autoVars EXCEPT ![addr] = "None"] ELSE autoVars,
                   IF ok THEN [userVars EXCEPT ![addr] = "None"] ELSE userVars, ok)

define_data_var(addr, var_type) == BNDefineDataVariable(addr, var_type)

define_user_data_var(addr, var_type) == BNDefineUserDataVariable(addr, var_type)

undefine_data_var(addr) == BNUndefineDataVariable(addr)

undefine_user_data_var(addr) == BNUndefineUserDataVariable(addr)

VarFrame ==
    /\ UNCHANGED <<mem, modif, registered, notifications, nextCb>>
    /\ UNCHANGED <<cbLog, cbSpan>>
    /\ UNCHANGED <<nonNotifyVars, blocked>>

DefineDataVar ==
    \E addr \in VarAddrs, t \in Types :
        /\ CoreLockFree /\ nops < MaxOps
        /\ define_data_var(addr, t)
        /\ nops' = nops + 1
        /\ VarFrame

DefineUserDataVar ==
    \E addr \in VarAddrs, t \in Types :
        /\ CoreLockFree /\ nops < MaxOps
        /\ define_user_data_var(addr, t)
        /\ nops' = nops + 1
        /\ VarFrame

UndefineDataVar ==
    \E addr \in VarAddrs :
        /\ CoreLockFree /\ nops < MaxOps
        /\ undefine_data_var(addr)
        /\ nops' = nops + 1
        /\ VarFrame

UndefineUserDataVar ==
    \E addr \in VarAddrs :
        /\ CoreLockFree /\ nops < MaxOps
        /\ undefine_user_data_var(addr)
        /\ nops' = nops + 1
        /\ VarFrame

\* A second thread calls write or define_user_data_var while the call of the
\* first one is in progress: it waits inside the core.
CallBlocks ==
    \E call \in BlockedCalls :
        /\ mpc = "delivering" /\ nops < MaxOps
        /\ blocked = NoBlocked
        /\ blocked' = call
        /\ nops' = nops + 1
        /\ UNCHANGED <<storeVars, notifications, nextCb, deliverVars>>
        /\ UNCHANGED <<logged, escaped, cbLog, cbSpan, issued, lastOp>>
        /\ UNCHANGED nonNotifyVars

\* The core admits the waiting call: it is applied and notified.
BlockedProceeds ==
    /\ blocked # NoBlocked
    /\ CoreLockFree
    /\ IF blocked.op = "write"
       THEN write(blocked.a, blocked.data, TRUE) /\ UNCHANGED <<autoVars, userVars>>
       ELSE define_user_data_var(blocked.a, blocked.t) /\ UNCHANGED <<mem, modif>>
    /\ blocked' = NoBlocked
    /\ UNCHANGED <<registered, notifications, nextCb, cbLog, cbSpan, nops>>
    /\ UNCHANGED nonNotifyVars

\* An event of another kind (function, tag, symbol, string, type, metadata),
\* emitted by the core for a change that is not modelled further.
CoreEmitOther ==
    \E kind \in OtherKinds :
        /\ CoreLockFree /\ nops < MaxOps
        /\ Emit([NoCall EXCEPT !.ev = Event(kind, 0, 0, "None"), !.lenBefore = Len(mem)])
        /\ lastOp' = lastOp
        /\ nops' = nops + 1
        /\ UNCHANGED <<storeVars, notifications, nextCb>>
        /\ UNCHANGED <<cbLog, cbSpan>>
        /\ UNCHANGED <<nonNotifyVars, blocked>>

(***************************************************************************)
(* The life of the callback objects of a view: register_notification,      *)
(* unregister_notification and __del__.                                    *)
(***************************************************************************)
RegFrame == UNCHANGED <<analysisVars, searchVars, rd, nonRegRest>>

\* register_notification(notify), by a caller that is not in a handler:
\* cb = BinaryDataNotificationCallbacks(self, notify); cb._register();
\* self._notifications[notify] = cb
RegisterObserver ==
    \E notify \in Obs :
        /\ ~torn /\ mpc = "idle"
        /\ nextCb < MaxRegs
        /\ register_notification(notify)
        /\ owner' = [owner EXCEPT ![nextCb + 1] = notify]
        /\ overwrote' = (overwrote \/ notifications[notify] # 0)
        /\ UNCHANGED <<mem, modif, autoVars, userVars, deliverVars, blocked>>
        /\ UNCHANGED <<logged, escaped, cbLog, issued, lastOp, nops, torn>>
        /\ RegFrame

\* unregister_notification(notify), by a caller that is not in a handler.
UnregisterObserver ==
    \E notify \in Obs :
        /\ ~torn /\ mpc = "idle"
        /\ unregister_notification(notify)
        /\ UNCHANGED <<mem, modif, autoVars, userVars, mpc, cur, received, blocked>>
        /\ UNCHANGED <<logged, escaped, cbLog, issued, lastOp, nops, owner, torn, overwrote>>
        /\ RegFrame

\* __del__: for i in self._notifications.values(): i._unregister()
del_entries ==
    SelectSeq(registered, LAMBDA c : \A o \in Obs : notifications[o] # c)

\* The view is torn down; no call is made on it afterwards.
Teardown ==
    /\ ~torn /\ mpc = "idle"
    /\ registered' = del_entries
    /\ torn' = TRUE
    /\ UNCHANGED <<mem, modif, autoVars, userVars, notifications, nextCb, deliverVars,
                   blocked, logged, escaped, notifyHist, owner, overwrote>>
    /\ RegFrame

\* The calls on a view that raise events, while the view lives.
LiveWrite == ~torn /\ Write
LiveDeliver == ~torn /\ Deliver
LiveReturn == ~torn /\ MutationReturn

\* A view whose bytes are m, none of them modified, with one auto-defined
\* segment for each run of mapped addresses.
InitStorage(m) ==
    /\ mem = m
    /\ modif = [i \in 1..Len(m) |-> "Original"]
    /\ autoSegs = RunsOf(m)
    /\ userSegs = {}
    /\ segOp = NoSegOp

\* The views of up to MaxLen addresses, each address mapped or not.
Layouts == UNION {[1..n -> Bytes \cup {Unmapped}] : n \in 0..MaxLen}

InitObservers ==
    /\ autoVars = [a \in VarAddrs |-> "None"]
    /\ userVars = [a \in VarAddrs |-> "None"]
    /\ registered = <<>>
    /\ notifications = [o \in Obs |-> 0]
    /\ nextCb = 0
    /\ mpc = "idle"
    /\ cur = NoCall
    /\ dq = <<>>
    /\ received = {}
    /\ logged = 0
    /\ escaped = 0
    /\ cbLog = [c \in Cbs |-> <<>>]
    /\ cbSpan = [c \in Cbs |-> <<0, 0>>]
    /\ issued = <<>>
    /\ lastOp = NoOp
    /\ nops = 0
    /\ blocked = NoBlocked

InitNotify ==
    /\ InitStorage(<<0, 1>>)
    /\ InitObservers

\* Byte mutations and events of the other kinds, with their delivery.
NotifyNext ==
    \/ RegisterNotification
    \/ UnregisterNotification
    \/ Write
    \/ Insert
    \/ Remove
    \/ CoreEmitOther
    \/ Deliver
    \/ MutationReturn

\* Data-variable mutations, with the delivery of their events.
VarNext ==
    \/ RegisterNotification
    \/ UnregisterNotification
    \/ DefineDataVar
    \/ DefineUserDataVar
    \/ UndefineDataVar
    \/ UndefineUserDataVar
    \/ Deliver
    \/ MutationReturn

(***************************************************************************)
(* The analysis life cycle and the completion events.                      *)
(***************************************************************************)
InitAnalysis ==
    /\ analysisState = "Initial"
    /\ hold = FALSE
    /\ savedState = "Initial"
    /\ dirty = FALSE
    /\ aborted = FALSE
    /\ coreEv = [e \in Events |-> "none"]
    /\ nfuncs = 0
    /\ ipc = [e \in Events |-> "none"]
    /\ callback = [e \in Events |-> "user"]
    /\ pending = {}
    /\ npc = [e \in Events |-> "idle"]
    /\ loaded = [e \in Events |-> "empty"]
    /\ cpc = [e \in Events |-> "idle"]
    /\ wpc = "idle"
    /\ fired = [e \in Events |-> 0]
    /\ cancelReturned = [e \in Events |-> FALSE]
    /\ holdReq = FALSE
    /\ updWhileHeld = FALSE
    /\ abortPending = {}
    /\ addedSince = FALSE
    /\ rerun = FALSE

InitRest == InitScan /\ wr = NoWrite /\ InitValue /\ InitDisasm /\ InitCursor /\ api = NoApiCall /\ InitTags
            /\ InitUndo /\ InitCompleter /\ InitAscii /\ InitBackend
            /\ InitOwners /\ InitGraphs

InitQuery == InitSearch /\ rd = NoRead /\ InitRest

\* A view over a backend that opts in to insert and remove.
Init == InitAnalysis /\ InitNotify /\ InitQuery /\ optsIn = TRUE /\ InitTypes /\ InitUnits

EventStep ==
    \E e \in Events :
        \/ EventInitRegister(e)
        \/ EventInitInsert(e)
        \/ NotifyBegin(e)
        \/ NotifyLoad(e)
        \/ NotifyCall(e)
        \/ CancelSet(e)
        \/ CancelCore(e)
        \/ CancelDel(e)

\* Completion events under a running analysis.
Next ==
    \/ UpdateAnalysis
    \/ AbortAnalysis
    \/ CoreDisassembleDone
    \/ CoreAnalyzeDone
    \/ EventStep

Spec == Init /\ [][Next]_vars

\* The scheduler under hold, updates, waits, aborts and added functions.
SchedNext ==
    \/ SetAnalysisHold
    \/ UpdateAnalysis
    \/ UpdateAnalysisAndWait
    \/ WaitReturn
    \/ AbortAnalysis
    \/ AddFunction
    \/ AddEntryPoint
    \/ CoreDisassembleDone
    \/ CoreAnalyzeDone

SchedSpec == Init /\ [][SchedNext]_vars

\* Mutations of the view and their notification to the observers.
NotifySpec == Init /\ [][NotifyNext]_vars

VarSpec == Init /\ [][VarNext]_vars

\* Data-variable mutations of a view with no observer registered.
StoreNext ==
    \/ DefineDataVar
    \/ DefineUserDataVar
    \/ UndefineDataVar
    \/ UndefineUserDataVar
    \/ MutationReturn

StoreSpec == Init /\ [][StoreNext]_vars

\* Writes whose delivery is interleaved with unregister_notification calls.
InFlightNext ==
    \/ RegisterNotification
    \/ UnregisterNotification
    \/ UnregisterInFlight
    \/ Write
    \/ Deliver
    \/ MutationReturn

InFlightSpec == Init /\ [][InFlightNext]_vars

\* Two threads that call write and define_user_data_var on the same view.
ConcNext ==
    \/ RegisterNotification
    \/ Write
    \/ DefineUserDataVar
    \/ CallBlocks
    \/ BlockedProceeds
    \/ Deliver
    \/ MutationReturn

ConcSpec == Init /\ [][ConcNext]_vars

\* One search of the view, synchronous or streaming, and its consumer.
SearchNext ==
    \/ FindAllSync
    \/ FindAllStream
    \/ CoreSearchProgress
    \/ CoreSearchMatch
    \/ CoreSearchDone
    \/ SyncReturn
    \/ ThreadExit
    \/ NextBegin
    \/ NextEmpty
    \/ NextGet
    \/ NextAlive
    \/ NextEmpty2
    \/ Discard

SearchSpec == Init /\ [][SearchNext]_vars

\* The core's search loop and the threads keep running, and a consumer that
\* holds the generator keeps calling next().
FairSearch ==
    /\ SearchSpec
    /\ WF_vars(CoreSearchMatch)
    /\ WF_vars(CoreSearchDone)
    /\ WF_vars(SyncReturn)
    /\ WF_vars(ThreadExit)
    /\ WF_vars(NextBegin)
    /\ WF_vars(NextEmpty)
    /\ WF_vars(NextGet)
    /\ WF_vars(NextAlive)
    /\ WF_vars(NextEmpty2)

\* Reads of views with every layout of mapped and unmapped addresses.
InitRead ==
    /\ InitAnalysis
    /\ \E m \in Layouts : InitStorage(m)
    /\ InitObservers
    /\ InitQuery
    /\ optsIn = TRUE
    /\ InitTypes /\ InitUnits

ReadSpec == InitRead /\ [][Read]_vars

\* Queries for the next valid offset and linear scans, over every layout.
ScanNext ==
    \/ GetNextValidOffset
    \/ ScanBegin
    \/ ScanStep
    \/ ScanEnd

ScanSpec == InitRead /\ [][ScanNext]_vars

\* Additions and removals of auto-defined and user-defined segments.
SegNext ==
    \/ AddAutoSegment
    \/ AddUserSegment
    \/ RemoveAutoSegment
    \/ RemoveUserSegment

SegSpec == Init /\ [][SegNext]_vars

\* A caller sets up segments, then writes and reads back.
MaxSetupOps == 1    \* segment operations before the write
RwSetup == wr = NoWrite /\ segOp.n < MaxSetupOps /\ SegNext

RwNext ==
    \/ RwSetup
    \/ WriteCall
    \/ MutationReturn
    \/ ReadBack

RwSpec == Init /\ [][RwNext]_vars

\* A view over a backend that does not override perform_insert and
\* perform_remove.
InitDefault == InitAnalysis /\ InitNotify /\ InitQuery /\ optsIn = FALSE /\ InitTypes /\ InitUnits

DefaultNext ==
    \/ RegisterNotification
    \/ Insert
    \/ Remove
    \/ Read

DefaultSpec == InitDefault /\ [][DefaultNext]_vars

\* Iteration over the instructions of a view with any layout of mapped and
\* unmapped addresses.
HoleLayouts == UNION {[1..n -> {0, Unmapped}] : n \in 0..MaxLen}

InitHoles ==
    /\ \E m \in HoleLayouts : InitStorage(m)
    /\ InitObservers /\ InitAnalysis /\ InitQuery /\ optsIn = TRUE /\ InitTypes /\ InitUnits

DisasmStep ==
    \/ DisasmBegin
    \/ DisasmNext

DisasmSpec == InitHoles /\ [][DisasmStep]_vars

FairDisasm == DisasmSpec /\ WF_vars(DisasmNext)

\* Cursors over every linear view.
UnitLayouts == UNION {[1..n -> 0..MaxLines] : n \in 0..MaxUnits}

InitLinear ==
    /\ InitAnalysis /\ InitNotify /\ InitQuery /\ optsIn = TRUE /\ InitTypes
    /\ units \in UnitLayouts
    /\ stopOnArrival \in BOOLEAN

LinearNext ==
    \/ GetLinearDisassemblyPositionAt
    \/ GetNextBegin
    \/ GetNextPass
    \/ GetPreviousBegin
    \/ GetPreviousPass
    \/ LinesReturn
    \/ IterBegin
    \/ IterResume

LinearSpec == InitLinear /\ [][LinearNext]_vars

FairLinear ==
    /\ LinearSpec
    /\ WF_vars(GetNextPass)
    /\ WF_vars(GetPreviousPass)
    /\ WF_vars(IterResume)

\* Calls at the API boundary of a view with at most one observer.
ApiRegister == registered = <<>> /\ api.n = 0 /\ RegisterNotification

ApiNext ==
    \/ ApiRegister
    \/ ApiAddFunction
    \/ ApiAddEntryPoint
    \/ ApiWrite
    \/ ApiInsert
    \/ Deliver
    \/ MutationReturn

ApiSpec == Init /\ [][ApiNext]_vars

\* Tag types and tags are created and removed.
TagNext ==
    \/ CreateTagType
    \/ RemoveTagType
    \/ AddUserDataTag
    \/ AddAutoDataTag
    \/ RemoveUserDataTag

TagSpec == Init /\ [][TagNext]_vars

\* Groups of user mutations on a view with one tag type, with undo and
\* redo, and mutations of the analysis in between.
UndoSetup == tagTypes = {} /\ uop.n = 0 /\ CreateTagType

UndoNext ==
    \/ UndoSetup
    \/ BeginUndoActions
    \/ UserAddTag
    \/ UserRemoveTag
    \/ AutoAddTag
    \/ CommitUndoActions
    \/ Undo
    \/ Redo

UndoSpec == Init /\ [][UndoNext]_vars

\* The completions of every text.
CompleterSpec == Init /\ [][Complete]_vars

\* The strings of every view of up to MaxLen bytes.
InitStrings ==
    /\ \E m \in AsciiLayouts : InitStorage(m)
    /\ InitObservers /\ InitAnalysis /\ InitQuery /\ optsIn = TRUE /\ InitTypes /\ InitUnits

AsciiSpec == InitStrings /\ [][GetAsciiStringAt]_vars

\* The core's calls of the callbacks of a custom backend.
BackendNext ==
    \/ CoreRead
    \/ CoreCallback
    \/ CallbackReturn

BackendSpec == Init /\ [][BackendNext]_vars

\* Registrations, unregistrations and the end of a view, with writes that
\* raise events in between.
RegNext ==
    \/ RegisterObserver
    \/ UnregisterObserver
    \/ LiveWrite
    \/ LiveDeliver
    \/ LiveReturn
    \/ Teardown

RegSpec == Init /\ [][RegNext]_vars

\* The callers of layout_and_wait and the layout threads of the core.
GraphNext ==
    \/ LayoutAndWait
    \/ CallerAcquires
    \/ CallerWaits
    \/ CallerReturns
    \/ CoreLayoutCompletes
    \/ CallbackAcquires
    \/ CallbackNotifies

GraphSpec == Init /\ [][GraphNext]_vars

\* Every thread that can take a step takes it; a layout that was started
\* ends.
FairGraph ==
    /\ GraphSpec
    /\ \A g \in Graphs :
          /\ WF_vars(CallerAcquire(g))
          /\ WF_vars(CallerWait(g))
          /\ WF_vars(CallerReturn(g))
          /\ WF_vars(CoreLayoutComplete(g))
          /\ WF_vars(CallbackAcquire(g))
          /\ WF_vars(CallbackNotify(g))

\* The value of a data variable, over every table of types.
InitAnyTypes ==
    /\ InitAnalysis /\ InitNotify /\ InitQuery /\ optsIn = TRUE /\ InitUnits
    /\ typeTab \in [TypeIds -> StoredTypes]

ValueNext ==
    \/ ValueBegin
    \/ ValueHelper

ValueSpec == InitAnyTypes /\ [][ValueNext]_vars

FairValue == ValueSpec /\ WF_vars(ValueHelper)

\* The scanning caller keeps running.
FairScan ==
    /\ ScanSpec
    /\ WF_vars(ScanStep)
    /\ WF_vars(ScanEnd)

\* The scheduler's worker and the threads inside _notify, cancel(), __init__
\* and update_analysis_and_wait keep running: a step of theirs that stays
\* possible is eventually taken.
AbortNext ==
    \/ Next
    \/ UpdateAnalysisAndWait
    \/ WaitReturn

FairSpec ==
    /\ Init /\ [][AbortNext]_vars
    /\ WF_vars(CoreDisassembleDone)
    /\ WF_vars(CoreAnalyzeDone)
    /\ WF_vars(WaitReturn)
    /\ \A e \in Events :
          /\ WF_vars(EventInitInsert(e))
          /\ WF_vars(NotifyBegin(e))
          /\ WF_vars(NotifyLoad(e))
          /\ WF_vars(NotifyCall(e))
          /\ WF_vars(CancelCore(e))
          /\ WF_vars(CancelDel(e))

FairSched ==
    /\ SchedSpec
    /\ WF_vars(CoreDisassembleDone)
    /\ WF_vars(CoreAnalyzeDone)
    /\ WF_vars(WaitReturn)

(***************************************************************************)
(* Properties of the completion events.                                    *)
(***************************************************************************)

\* An event that has left the pending set, with no call on it in progress.
Settled(e) ==
    /\ ipc[e] = "created"
    /\ e \notin pending
    /\ cpc[e] = "idle"
    /\ npc[e] \in {"idle", "done"}

C6_NoCallAfterCancel ==
    [][\A e \in Events : cancelReturned[e] => fired'[e] = fired[e]]_vars

\* C7: an event is in the pending set if and only if it has been created and
\* has neither fired (its notification has not begun) nor been cancelled
\* (no cancel() has returned).
C7_PendingIff ==
    \A e \in Events :
        e \in pending <=> (ipc[e] = "created" /\ npc[e] = "idle" /\ ~cancelReturned[e])

(***************************************************************************)
(* Properties of the scheduler.                                            *)
(***************************************************************************)

\* C8: while hold is enabled by set_analysis_hold(True), the analysis state
\* is neither Disassembling nor Analyzing and no call changes it, until
\* set_analysis_hold(False).
C8_HoldNoTransition ==
    [][holdReq => /\ analysisState \notin Running
                  /\ holdReq' => analysisState' = analysisState]_vars

\* Hold interrupted a running analysis and an update was requested under it.
C8_Witness == holdReq /\ updWhileHeld /\ hold /\ savedState = "Disassembling"

\* A step in which update_analysis_and_wait returns to its caller.
WaitReturns == wpc # "returned" /\ wpc' = "returned"

LifecycleStep ==
    \/ analysisState = "Initial" /\ analysisState' = "Disassembling"
    \/ analysisState = "Disassembling" /\ analysisState' = "Analyzing"
    \/ analysisState = "Analyzing" /\ analysisState' \in {"Disassembling", "Idle"}
    \/ analysisState = "Idle" /\ analysisState' = "Disassembling" /\ addedSince
    \/ analysisState' = "Hold" /\ ~holdReq /\ holdReq'
    \/ analysisState = "Hold" /\ holdReq /\ ~holdReq' /\ analysisState' = savedState

\* The step of an abort_analysis call that ends the analysis.
AbortStep == ~aborted /\ aborted' /\ analysisState' = "Idle"

\* C11 as stated: the analysis state changes only along the life cycle:
\* Analyzing is entered only from Disassembling, Idle only after Analyzing,
\* Disassembling from Idle only after a function or entry point was added,
\* and Hold is entered and left only by set_analysis_hold.
C11_Lifecycle == [][analysisState' # analysisState => LifecycleStep]_vars

\* C11, amended: the analysis state changes only along the life cycle, or
\* to Idle by abort_analysis, which ends the analysis in any state.
C11_LifecycleOrAbort ==
    [][analysisState' # analysisState => (LifecycleStep \/ AbortStep)]_vars

\* The analysis went idle, a function or entry point was added, and an
\* update has restarted it from Idle.
C11_Witness == rerun /\ analysisState = "Analyzing" /\ ~aborted /\ nfuncs = MaxFuncs

(***************************************************************************)
(* Properties of the change notifications.                                 *)
(***************************************************************************)
Range(q) == {q[i] : i \in 1..Len(q)}

\* C2: whatever an observer's handler raises, for every event kind, the
\* exception is caught and logged by the wrapper (none leaves it), and every
\* registered observer has received the event when the delivery ends.
C2_ObserverErrorsIsolated ==
    mpc = "delivering" =>
        /\ escaped = 0
        /\ dq = <<>> => received = Range(registered)

\* C3: while the event of a write, insert or remove is being delivered, a
\* read of the range the handler was given returns the data written or
\* inserted, the modification status of these bytes is the one after the
\* mutation, the length of the view is the one after an insert or remove,
\* and the delivery has reached every observer before the call returns.
C3_MutateLogNotify ==
    (mpc = "delivering" /\ received # {}) =>
        LET r == Received(cur.ev) IN
        /\ r.kind = "data_written" =>
              /\ read(r.a, r.n) = cur.data
              /\ Len(mem) = cur.lenBefore
              /\ \A i \in 1..r.n :
                    /\ get_modification(r.a + i - 1) \in {"Original", "Changed"}
                    /\ cur.data[i] # cur.before[i] => get_modification(r.a + i - 1) = "Changed"
        /\ r.kind = "data_inserted" =>
              /\ read(r.a, r.n) = cur.data
              /\ Len(mem) = cur.lenBefore + r.n
              /\ \A i \in 1..r.n : get_modification(r.a + i - 1) = "Inserted"
        /\ r.kind = "data_removed" =>
              /\ Len(mem) = cur.lenBefore - r.n
              /\ read(r.a, Len(mem)) = SubSeq(mem, r.a + 1, Len(mem))
        /\ dq = <<>> => received = Range(registered)

\* Two observers have received the event of a write that changed two bytes.
C3_Witness ==
    /\ mpc = "delivering" /\ Cardinality(received) = 2
    /\ cur.ev.kind = "data_written" /\ cur.ev.n = 2
    /\ cur.data[1] # cur.before[1] /\ cur.data[2] # cur.before[2]

\* The events a callback object should have received: those issued while it
\* was registered.
Due(c) ==
    SubSeq(issued, cbSpan[c][1] + 1,
           IF cbSpan[c][2] = -1 THEN Len(issued) ELSE cbSpan[c][2])

\* Every listener has received exactly the events issued while it was
\* registered, each once and in the order of issue; during a delivery the
\* listeners not reached yet lack the last event only.
ListenersInOrder ==
    \A c \in 1..nextCb :
        IF mpc = "delivering" /\ cur.ev.kind \in VarKinds /\ c \in Range(dq)
        THEN cbLog[c] = SubSeq(Due(c), 1, Len(Due(c)) - 1)
        ELSE cbLog[c] = Due(c)

UserVarOps == {"define_user_data_var", "undefine_user_data_var"}

\* C4 as stated: every successful define_user_data_var emits exactly one
\* data_var_added event and every successful undefine_user_data_var exactly
\* one data_var_removed event, and every listener receives them in order.
C4_AddedRemovedOnly ==
    /\ (lastOp.op \in UserVarOps /\ lastOp.ok) =>
          /\ Len(issued) = lastOp.n + 1
          /\ issued[Len(issued)].a = lastOp.a
          /\ issued[Len(issued)].kind =
                IF lastOp.op = "define_user_data_var"
                THEN "data_var_added" ELSE "data_var_removed"
    /\ ListenersInOrder

\* C4, amended: every successful define_user_data_var emits exactly one
\* event, data_var_updated when it replaces a data variable by a different
\* one and data_var_added otherwise; every successful undefine_user_data_var
\* emits exactly one data_var_removed event; a call that fails emits none;
\* every listener receives the events in the order of issue, each once.
C4_OneEventInOrder ==
    /\ (lastOp.op \in UserVarOps /\ lastOp.ok) =>
          /\ Len(issued) = lastOp.n + 1
          /\ issued[Len(issued)].a = lastOp.a
          /\ issued[Len(issued)].kind =
                IF lastOp.op = "undefine_user_data_var" THEN "data_var_removed"
                ELSE IF lastOp.pre.found /\ lastOp.pre # CoreVar(TRUE, lastOp.t, FALSE)
                THEN "data_var_updated"
                ELSE "data_var_added"
    /\ (lastOp.op \in UserVarOps /\ ~lastOp.ok) => Len(issued) = lastOp.n
    /\ ListenersInOrder

\* Two listeners have both received a data_var_added and then a
\* data_var_removed event.
C4_Witness ==
    /\ mpc = "idle" /\ Len(registered) = 2
    /\ lastOp.op = "undefine_user_data_var" /\ lastOp.ok
    /\ \A c \in Range(registered) :
          /\ Len(cbLog[c]) = 2
          /\ cbLog[c][1].kind = "data_var_added"
          /\ cbLog[c][2].kind = "data_var_removed"

\* C5: a user data variable shadows the auto one at its address for
\* get_data_var_at, also when the auto one is defined later, and after
\* undefine_user_data_var the query returns None.
C5_UserShadowsAuto ==
    /\ lastOp.op = "define_user_data_var" =>
          get_data_var_at(lastOp.a) = DataVariable(lastOp.t, FALSE)
    /\ (lastOp.op = "define_data_var" /\ lastOp.pre.found /\ ~lastOp.pre.auto) =>
          get_data_var_at(lastOp.a) = DataVariable(lastOp.pre.type, FALSE)
    /\ (lastOp.op = "undefine_user_data_var" /\ lastOp.ok) =>
          get_data_var_at(lastOp.a) = PyNone

\* undefine_user_data_var removed a user variable that shadowed an auto one.
C5_Witness ==
    /\ lastOp.op = "undefine_user_data_var" /\ lastOp.ok /\ lastOp.shadowed
    /\ get_data_var_at(lastOp.a) = PyNone

\* C12: while a mutating call delivers its event, the observers registered
\* with the view receive it in the order of their registration, only
\* registered callback objects are called, and when the delivery is over
\* (the call is about to return) every registered observer has received it.
C12_AllInRegistrationOrder ==
    mpc = "delivering" =>
        /\ received \subseteq Range(registered)
        /\ \A o1, o2 \in Obs :
              (/\ notifications[o1] # 0 /\ notifications[o2] # 0
               /\ notifications[o1] < notifications[o2]
               /\ notifications[o2] \in received) => notifications[o1] \in received
        /\ dq = <<>> =>
              \A o \in Obs : notifications[o] # 0 => notifications[o] \in received

\* Two observers are registered; the one registered first has received the
\* event, the other one is still to be called.
C12_Witness ==
    /\ mpc = "delivering"
    /\ \E o1, o2 \in Obs :
          /\ notifications[o1] # 0 /\ notifications[o2] # 0
          /\ notifications[o1] < notifications[o2]
          /\ received = {notifications[o1]}
          /\ dq = <<notifications[o2]>>

C15_FalseStopsAfterOne ==
    (sform = "sync" /\ mret = "False") =>
        /\ produced <= 1
        /\ (sreturned /\ total >= 1 /\ ~cancelled) => produced = 1

\* A synchronous search of a range with MaxMatches matches has returned
\* after its callback returned False to the first of them.
C15_Witness ==
    /\ sform = "sync" /\ skind = "text" /\ mret = "False"
    /\ total = MaxMatches /\ sreturned /\ ~cancelled
    /\ produced = 1

\* The matches the core has published, in publication order.
Published == [i \in 1..produced |-> i]

\* C16: in the streaming form the matches next() has returned, followed by
\* the matches still queued, are the published matches in publication order,
\* each once; next() returns only with a match it took from the queue or
\* with StopIteration, which it raises only when the thread has ended and
\* the queue is empty; after StopIteration every next() raises it again and
\* returns no further match.
C16_StreamDeliversAll ==
    /\ [](sform = "stream" =>
            /\ yielded \o queue = Published
            /\ lastNext = "stop" => (~alive /\ queue = <<>> /\ yielded = Published))
    /\ [][/\ (gpc # "out" /\ gpc' = "out") =>
               \/ lastNext' = "item" /\ queue # <<>> /\ yielded' = Append(yielded, Head(queue))
               \/ lastNext' = "stop" /\ ~alive /\ queue = <<>>
          /\ lastNext = "stop" => (lastNext' = "stop" /\ yielded' = yielded)]_vars

\* The consumer has received all MaxMatches matches of a search that was
\* not cancelled, and then StopIteration.
C16_Witness ==
    /\ sform = "stream" /\ ~cancelled /\ total = MaxMatches
    /\ lastNext = "stop" /\ gpc = "out"
    /\ yielded = Published /\ produced = MaxMatches

\* C17: once the progress callback has returned False the core's search
\* has stopped and reports no further match; the synchronous call then
\* returns, and the streaming sequence ends, for a consumer that keeps
\* calling next(), with no match other than the ones already published.
C17_CancelStops ==
    /\ [](cancelled => ~running)
    /\ [][cancelled => produced' = produced]_vars
    /\ [](sform = "stream" => Len(yielded) <= produced)
    /\ (cancelled /\ sform = "sync") ~> sreturned
    /\ (cancelled /\ sform = "stream") ~> (lastNext = "stop" \/ discarded)

\* A streaming search with MaxMatches matches was cancelled after its first
\* match; the consumer received that match and then StopIteration.
C17_Witness ==
    /\ sform = "stream" /\ cancelled /\ total = MaxMatches
    /\ produced = 1 /\ yielded = <<1>> /\ lastNext = "stop"

\* C18: the background thread of a streaming search eventually terminates,
\* and it has terminated whenever the generator has been discarded.
C18_ThreadEndsBeforeDiscard ==
    /\ (sform = "stream") ~> ~alive
    /\ [](discarded => ~alive)

\* C18, the part that holds: the background thread of a streaming search
\* eventually terminates.
C18_ThreadEnds == (sform = "stream") ~> ~alive

\* The caller took one match and dropped the generator while the search
\* was still running on its thread.
C18_DiscardedWhileAlive ==
    /\ sform = "stream" /\ discarded /\ alive /\ running
    /\ yielded = <<1>> /\ produced < total

(***************************************************************************)
(* Properties of read.                                                     *)
(***************************************************************************)
\* C19: read(addr, length) with addr >= 0 and length >= 0 does not raise;
\* it returns at most length bytes, which are the bytes of the mapped
\* addresses from addr on up to the first unmapped address, and so returns
\* empty bytes when addr lies in no segment.
C19_ReadMappedPrefix ==
    (rd.called /\ rd.addr >= 0 /\ rd.length >= 0) =>
        /\ rd.raised = "none"
        /\ Len(rd.out) <= rd.length
        /\ \A i \in 1..Len(rd.out) :
              /\ rd.addr + i <= Len(mem)
              /\ mem[rd.addr + i] # Unmapped
              /\ rd.out[i] = mem[rd.addr + i]
        /\ Len(rd.out) < rd.length =>
              \/ rd.addr + Len(rd.out) >= Len(mem)
              \/ mem[rd.addr + Len(rd.out) + 1] = Unmapped

\* A view with a segment at address 0 and one at address 2: a read of two
\* bytes at the unmapped address 1 between them returned empty bytes.
C19_Witness ==
    /\ Len(mem) = 3 /\ mem[1] # Unmapped /\ mem[2] = Unmapped /\ mem[3] # Unmapped
    /\ rd.called /\ rd.addr = 1 /\ rd.length = 2
    /\ rd.raised = "none" /\ rd.out = <<>>

\* C20: read(addr, length) with addr < 0 or length < 0 raises ValueError
\* without calling the core's storage, returns no bytes and changes no
\* state of the view.
C20_NegativeRejected ==
    /\ []((rd.called /\ (rd.addr < 0 \/ rd.length < 0)) =>
             (rd.raised = "ValueError" /\ ~rd.core /\ rd.out = <<>>))
    /\ [][(rd'.called /\ (rd'.addr < 0 \/ rd'.length < 0)) =>
             UNCHANGED <<analysisVars, notifyVars, searchVars>>]_vars

\* A read of a mapped address with a negative length was rejected.
C20_Witness ==
    /\ Len(mem) = 2 /\ mem[1] # Unmapped
    /\ rd.called /\ rd.addr = 0 /\ rd.length < 0
    /\ rd.raised = "ValueError" /\ ~rd.core

(***************************************************************************)
(* Properties of the validity queries and of the segments.                 *)
(***************************************************************************)
\* The smallest valid address at or after addr, or the end of the view.
SmallestValidFrom(addr) ==
    IF \E a \in addr..(ViewEnd - 1) : MappedAt(mem, a)
    THEN CHOOSE a \in addr..(ViewEnd - 1) :
             /\ MappedAt(mem, a)
             /\ \A b \in addr..(a - 1) : ~MappedAt(mem, b)
    ELSE ViewEnd

\* C21: get_next_valid_offset(addr) returns the smallest valid address at
\* or after addr, or the end of the view if there is none; it is monotonic
\* in addr; and a linear scan that skips gaps with it terminates.
C21_NextValidOffset ==
    /\ [](nvo.called => nvo.result = SmallestValidFrom(nvo.addr))
    /\ [](\A a, b \in ScanAddrs :
             a <= b => _get_next_valid_offset(a) <= _get_next_valid_offset(b))
    /\ scanning ~> ~scanning

\* C21, the part that holds: the result is monotonic in addr and never
\* before addr.
C21_Monotonic ==
    /\ \A a, b \in ScanAddrs :
          a <= b => _get_next_valid_offset(a) <= _get_next_valid_offset(b)
    /\ nvo.called => nvo.result >= nvo.addr

\* A view with a segment at address 0 and one at address 2: the query at
\* the unmapped address 1 returned 1.
C21_GapNotSkipped ==
    /\ Len(mem) = 3 /\ mem[1] # Unmapped /\ mem[2] = Unmapped /\ mem[3] # Unmapped
    /\ nvo.called /\ nvo.addr = 1 /\ nvo.result = 1

\* A scan stands at an unmapped address that the query does not move it
\* away from.
C21_ScanStuck ==
    /\ scanning /\ scanPos < ViewEnd /\ ~perform_is_valid_offset(scanPos)
    /\ _get_next_valid_offset(scanPos) = scanPos

\* C22: after any sequence of segment additions and removals an address
\* is valid if and only if it lies in some segment, for the query of the
\* view and for the default the view computes from read; an address in no
\* segment is not readable, writable or executable.
C22_ValidIffInSegment ==
    \A a \in ScanAddrs :
        LET inSeg == \E g \in autoSegs \cup userSegs :
                         g.start <= a /\ a < g.start + g.length
        IN  /\ is_valid_offset(a) <=> inSeg
            /\ perform_is_valid_offset(a) <=> inSeg
            /\ ~inSeg =>
                  /\ ~is_offset_readable(a) /\ ~perform_is_offset_readable(a)
                  /\ ~is_offset_writable(a) /\ ~perform_is_offset_writable(a)
                  /\ ~is_offset_executable(a) /\ ~perform_is_offset_executable(a)

\* The first segment was removed and a user-defined segment added at
\* address 2: address 2 is valid, the addresses before it are not.
C22_Witness ==
    /\ autoSegs = {} /\ Cardinality(userSegs) = 1
    /\ segOp.op = "add_user_segment" /\ segOp.seg.start = 2
    /\ is_valid_offset(2) /\ ~is_valid_offset(0) /\ ~is_valid_offset(1)
    /\ perform_is_valid_offset(2) /\ ~perform_is_valid_offset(1)

\* C25: an auto-defined and a user-defined segment with identical bounds
\* coexist, whichever is added first: an add with the bounds of a segment
\* of the other provenance, overlapping none of its own, enters its table
\* and leaves the other table as it is; a query at an address that both
\* cover returns the user-defined segment and its flags; and no operation
\* on the auto-defined segments changes the user-defined ones.
C25_UserSegmentWins ==
    /\ [](\A u \in userSegs, a \in autoSegs, addr \in ScanAddrs :
             (SameBounds(u, a) /\ u.start <= addr /\ addr < u.start + u.length) =>
                 /\ ~get_segment_at(addr).isNone
                 /\ get_segment_at(addr).seg = u
                 /\ is_offset_writable(addr) <=> "w" \in u.flags
                 /\ is_offset_executable(addr) <=> "x" \in u.flags)
    /\ [][/\ (/\ segOp' # segOp /\ segOp'.op = "add_auto_segment"
              /\ \E u \in userSegs : SameBounds(u, segOp'.seg)
              /\ \A h \in autoSegs : ~SegOverlap(h, segOp'.seg))
             => (segOp'.seg \in autoSegs' /\ userSegs' = userSegs)
          /\ (/\ segOp' # segOp /\ segOp'.op = "add_user_segment"
              /\ \E a \in autoSegs : SameBounds(a, segOp'.seg)
              /\ \A h \in userSegs : ~SegOverlap(h, segOp'.seg))
             => (segOp'.seg \in userSegs' /\ autoSegs' = autoSegs)
          /\ autoSegs' # autoSegs => userSegs' = userSegs]_vars

\* An auto-defined writable segment was added over a user-defined
\* executable segment with the same bounds: the query returns the
\* user-defined one.
C25_Witness ==
    /\ segOp.op = "add_auto_segment"
    /\ \E u \in userSegs :
          /\ SameBounds(u, segOp.seg) /\ segOp.seg \in autoSegs
          /\ u.flags = {"r", "x"} /\ segOp.seg.flags = {"r", "w"}
          /\ get_segment_at(u.start).seg = u
          /\ ~is_offset_writable(u.start)

(***************************************************************************)
(* Properties of write, insert and remove.                                 *)
(***************************************************************************)
\* C23: a read(addr, len(data)) that follows write(addr, data) returns data
\* when [addr, addr + len(data)) lay in writable segments.
C23_WriteReadRoundTrip ==
    (/\ NoWrite # wr /\ wr.inWritable
     /\ rd.called /\ rd.addr = wr.addr /\ rd.length = Len(wr.data))
        => rd.out = wr.data

\* Two bytes were written across two adjacent writable segments and read
\* back.
C23_Witness ==
    /\ wr # NoWrite /\ wr.inWritable /\ wr.addr = 1 /\ Len(wr.data) = 2
    /\ wr.data # <<0, 0>>
    /\ \E g \in userSegs : g.start = 2 /\ "w" \in g.flags
    /\ rd.called /\ rd.addr = 1 /\ rd.length = 2 /\ rd.out = wr.data

\* C24: over a backend that does not override perform_insert and
\* perform_remove, insert and remove report 0 for every address, leave the
\* contents, the length and the modification status of the view as they
\* are and emit no event.
C24_DefaultNoInsertRemove ==
    /\ [](~optsIn =>
            /\ \A addr \in Addrs, data \in DataSeqs : InsertLen(addr, data) = 0
            /\ \A addr \in Addrs, length \in 1..MaxData : RemoveLen(addr, length) = 0
            /\ mpc = "idle" /\ cur = NoCall /\ issued = <<>>)
    /\ [][~optsIn => UNCHANGED <<mem, modif>>]_vars

\* Every insert and remove call of the behaviour has been issued, with an
\* observer registered, and the view is as it was opened.
C24_Witness ==
    /\ ~optsIn /\ nops = MaxOps /\ registered # <<>>
    /\ mem = <<0, 1>> /\ mpc = "idle"

(***************************************************************************)
(* Properties of the type resolution.                                      *)
(***************************************************************************)
\* What the chain of references from t ends in after at most n steps.
RECURSIVE ChainEnd(_, _)
ChainEnd(t, n) ==
    IF t = ConcreteType THEN "concrete"
    ELSE IF t = MissingType THEN "missing"
    ELSE IF n = 0 THEN "cycle"
    ELSE ChainEnd(typeTab[t], n - 1)

\* C26: the resolution DataVariable.value performs follows the references
\* until a concrete type is reached, and it always ends: with the value
\* exactly when the chain ends in a concrete type, with an error when the
\* chain runs into a cycle or into an id without a type.
C26_ResolutionTerminates ==
    /\ [](vpc = "value" <=>
             (vpc \notin {"idle", "resolving"} /\ ChainEnd(vstart, NumTypes) = "concrete"))
    /\ []((vpc = "error" /\ ChainEnd(vstart, NumTypes) = "cycle") => verr = "RecursionError")
    /\ (vpc = "resolving") ~> (vpc \in {"value", "error"})

\* The type of the data variable refers to a type that refers back to it:
\* the call ended with an error.
C26_Witness ==
    /\ vpc = "error" /\ verr = "RecursionError"
    /\ vstart \in TypeIds /\ typeTab[vstart] \in TypeIds
    /\ typeTab[vstart] # vstart /\ typeTab[typeTab[vstart]] = vstart

\* The length the decoder reports at the address the generator stands at.
LengthHere == get_instruction_text(darch, read(daddr, max_instr_length), daddr).size

\* C27: a call of next() at an address where the decoder reports length 0
\* yields nothing and ends the iteration; a generator that stands at such
\* an address is finished by the next call; the addresses of the yielded
\* instructions are strictly increasing, each instruction has a length
\* above 0 and starts where the one before it ends.
C27_HaltsAtZeroLength ==
    /\ [][(dpc \in {"ready", "yielded"} /\ ~darch.isNone /\ LengthHere = 0 /\ dpc' # dpc)
            => (dpc' = "done" /\ dyield' = dyield /\ daddr' = daddr)]_vars
    /\ [](\A i \in 1..Len(dyield) :
             /\ dyield[i].size > 0
             /\ i > 1 => dyield[i].addr = dyield[i-1].addr + dyield[i-1].size)
    /\ [](\A i, j \in 1..Len(dyield) : i < j => dyield[i].addr < dyield[j].addr)
    /\ (dpc \in {"ready", "yielded"} /\ ~darch.isNone /\ LengthHere = 0) ~> (dpc = "done")

\* Two instructions were yielded, and the iteration ended at an address
\* inside the view where the decoder found no instruction.
C27_Witness ==
    /\ dpc = "done" /\ Len(dyield) = 2 /\ dsize = 0
    /\ daddr < Len(mem) /\ MappedAt(mem, daddr) /\ darch.tab[daddr] = 0

\* Every line of the units from..Len(units), in order.
RECURSIVE LinesFrom(_)
LinesFrom(from) ==
    IF from > Len(units) THEN <<>> ELSE LinesAt(from) \o LinesFrom(from + 1)

\* The units that render a line.
Rendering == {u \in 1..Len(units) : units[u] > 0}

\* C28: the two functions return an empty list only when a step of the
\* cursor reported the boundary; what they return otherwise is the lines
\* of the first rendering unit at or after the cursor (next) or before it
\* (previous), the units without lines in between skipped; every call
\* returns; the iterator ends, and has then yielded every line of the view
\* once and in order.
C28_LinesUntilBoundary ==
    /\ [](lpc = "returned" =>
             /\ lres = <<>> => lhit
             /\ lop = "next" =>
                   LET S == {u \in Rendering : u >= lfrom}
                   IN  lres = IF S = {} THEN <<>>
                              ELSE LinesAt(CHOOSE u \in S : \A v \in S : u <= v)
             /\ lop = "previous" =>
                   LET S == {u \in Rendering : u < lfrom}
                   IN  lres = IF S = {} THEN <<>>
                              ELSE LinesAt(CHOOSE u \in S : \A v \in S : u >= v))
    /\ [](lpc = "ended" => lyield = LinesFrom(1))
    /\ (lpc \in {"next", "previous"}) ~> (lpc \in {"returned", "ended"})
    /\ iterating ~> (lpc = "ended")

\* A call of get_next_linear_disassembly_lines at a unit without lines
\* returned the two lines of the unit after it, away from the boundary.
C28_Witness ==
    /\ lpc = "returned" /\ lop = "next" /\ ~iterating /\ ~lhit
    /\ lfrom \in 1..Len(units) /\ units[lfrom] = 0
    /\ Len(lres) = 2 /\ lres[1] = Line(lfrom + 1, 1)

\* C29: a call of add_function or add_entry_point without a Platform (none
\* given and none set in the view, or a value that is no Platform), and a
\* call of write or insert with data of an unsupported type, raises
\* Exception, AttributeError or TypeError, and the step of the call changes
\* no byte and no modification mark, adds no function and no analysis
\* work, and emits no event; a call that meets the contract raises nothing.
C29_RaisedBeforeMutation ==
    /\ [](api.valid <=> api.raised = "ok")
    /\ [](api.raised \in {"ok", "Exception", "AttributeError", "TypeError"})
    /\ [][(api' # api /\ ~api'.valid) =>
            /\ api'.raised # "ok"
            /\ UNCHANGED <<mem, modif, autoSegs, userSegs>>
            /\ UNCHANGED <<coreVars, addedSince>>
            /\ UNCHANGED <<deliverVars, issued, notifications, lastOp>>]_vars

\* With an observer registered, a write that changed the view was
\* followed by an insert of data of an unsupported type, which raised.
C29_Witness ==
    /\ api.fn = "insert" /\ api.raised = "TypeError" /\ api.n = 2
    /\ registered # <<>>
    /\ mem # <<0, 1>> /\ Len(mem) = 2

C32_CompleteSuccessive ==
    (cstate >= 0 /\ ~IsBlank(ctext)) =>
        /\ cret = IF cstate < Len(cmatches) THEN Completion(cmatches[cstate + 1])
                  ELSE NoCompletion
        /\ ~cret.isNone => StartsWith(cret.val, ctext)
        /\ ncomputed = 1

\* C32, the part that holds: the successive entries, then None, from a
\* list computed once.
C32_SuccessiveThenNone ==
    (cstate >= 0 /\ ~IsBlank(ctext)) =>
        /\ cret = IF cstate < Len(cmatches) THEN Completion(cmatches[cstate + 1])
                  ELSE NoCompletion
        /\ ncomputed = 1

\* The text "a.a " was completed to "a.a", which does not begin with it.
C32_NotPrefix ==
    /\ ctext = <<"a", ".", "a", " ">>
    /\ ~cret.isNone /\ cret.val = <<"a", ".", "a">>


\* C33: in the synchronous form of find_all_data, find_all_text and
\* find_all_constant only the value False, returned by the match callback,
\* makes the wrapper stop the search: a search that stopped before the last
\* match, and was not cancelled through the progress callback, had a callback
\* that returns False; with a callback that returns None or True the search
\* runs until the progress callback cancels it or the range is exhausted,
\* and a call that has returned without being cancelled has invoked the
\* callback once for every match of [start, end).
C33_OnlyFalseStops ==
    sform = "sync" =>
        /\ (~running /\ ~cancelled /\ produced < total) => mret = "False"
        /\ (mret # "False" /\ sreturned /\ ~cancelled) => produced = total
        /\ produced <= total

\* A synchronous search of a range with MaxMatches matches has returned; its
\* callback returned None to every one of them.
C33_Witness ==
    /\ sform = "sync" /\ skind = "constant" /\ mret = "None"
    /\ total = MaxMatches /\ sreturned /\ ~cancelled
    /\ produced = MaxMatches

\* The byte of the view at addr is an ASCII character, 1..0x7f.
IsAsciiAt(addr) ==
    /\ addr >= perform_get_start /\ addr < ViewEnd
    /\ mem[addr - perform_get_start + 1] \in 1..127

\* The number of consecutive ASCII characters of the view from addr on.
AsciiRun(addr) ==
    CHOOSE n \in 0..Len(mem) :
        /\ \A i \in 0..(n - 1) : IsAsciiAt(addr + i)
        /\ ~IsAsciiAt(addr + n)

\* The length get_ascii_string_at is to find: the run, capped at max_length.
AsciiLength(addr, max_length) ==
    IF max_length.isNone THEN AsciiRun(addr) ELSE Min(AsciiRun(addr), max_length.val)

\* The byte of the view at addr is 0.
IsNulAt(addr) ==
    /\ addr >= perform_get_start /\ addr < ViewEnd
    /\ mem[addr - perform_get_start + 1] = 0

\* C34: get_ascii_string_at(addr, min_length, max_length, require_cstring)
\* returns None when addr lies outside [start, end), when the number L of
\* consecutive bytes in 1..0x7f from addr on, capped at max_length, is below
\* min_length, or when require_cstring is set and the byte after the L
\* characters is not 0; in every other case it returns the string reference
\* that starts at addr with length L.  The length returned is never below
\* min_length nor above max_length.
C34_AsciiStringAt ==
    asc.called =>
        LET L == AsciiLength(asc.addr, asc.max_length)
            none == \/ asc.addr < perform_get_start \/ asc.addr >= ViewEnd
                    \/ L < asc.min_length
                    \/ asc.require_cstring /\ ~IsNulAt(asc.addr + L)
        IN  /\ asc.ret.isNone <=> none
            /\ ~asc.ret.isNone =>
                /\ asc.ret.start = asc.addr
                /\ asc.ret.length = L
                /\ asc.ret.length >= asc.min_length
                /\ asc.max_length.isNone \/ asc.ret.length <= asc.max_length.val
                /\ \A i \in 0..(asc.ret.length - 1) : IsAsciiAt(asc.addr + i)

\* A C string of two characters, the first and the last ASCII character, is
\* found at the start of a view; both bounds of the call are 2.
C34_Witness ==
    /\ mem = <<127, 1, 0>>
    /\ asc.called /\ asc.addr = perform_get_start /\ asc.require_cstring
    /\ asc.min_length = 2 /\ asc.max_length = [isNone |-> FALSE, val |-> 2]
    /\ ~asc.ret.isNone /\ asc.ret.length = 2

\* C35: an exception raised by an overridden perform_* method is caught in
\* the callback, which logs it and returns the sentinel of the operation:
\* 0 bytes for read, write, insert and remove, False for the validity and
\* permission predicates and for save, the offset it was given for the next
\* valid offset, Original for the modification status.  No exception leaves
\* a callback.
C35_ExceptionToSentinel ==
    bcall.called =>
        /\ ~bcall.res.escaped
        /\ bcall.raised =>
            /\ bcall.res.logged
            /\ bcall.res.copied = <<>>
            /\ bcall.name \in ByteCallbacks => bcall.res.ret = IntVal(0)
            /\ bcall.name \in PredicateCallbacks \cup {"save"} => bcall.res.ret = BoolVal(FALSE)
            /\ bcall.name = "get_next_valid_offset" => bcall.res.ret = IntVal(bcall.offset)
            /\ bcall.name = "get_modification" => bcall.res.ret = EnumVal("Original")

\* perform_get_next_valid_offset raised at the last address; the callback
\* logged the error and returned that address.
C35_Witness ==
    /\ bcall.called /\ bcall.name = "get_next_valid_offset" /\ bcall.raised
    /\ bcall.offset = MaxLen /\ bcall.res.ret = IntVal(MaxLen) /\ bcall.res.logged

\* C38: _read moves to the destination buffer only bytes that perform_read
\* returned, never more than length of them, and returns the number of
\* bytes it moved, also when perform_read returns more than length bytes;
\* when perform_read returns None or raises it moves nothing and returns 0.
C38_ReadWithinLength ==
    (bcall.called /\ bcall.name = "read") =>
        /\ Len(bcall.res.copied) <= bcall.length
        /\ bcall.res.ret = IntVal(Len(bcall.res.copied))
        /\ (bcall.raised \/ bcall.data.isNone) => bcall.res.copied = <<>>
        /\ (~bcall.raised /\ ~bcall.data.isNone) =>
            /\ Len(bcall.res.copied) = Min(Len(bcall.data.data), bcall.length)
            /\ bcall.res.copied = SubSeq(bcall.data.data, 1, Len(bcall.res.copied))

\* perform_read returned one byte more than the MaxLen bytes asked for, and
\* _read moved MaxLen bytes.
C38_Witness ==
    /\ bcall.called /\ bcall.name = "read" /\ ~bcall.raised /\ ~bcall.data.isNone
    /\ bcall.length = MaxLen /\ Len(bcall.data.data) = MaxLen + 1
    /\ bcall.res.ret = IntVal(MaxLen)

\* The callback objects the view's _notifications map holds.
MapEntries == {notifications[o] : o \in {x \in Obs : notifications[x] # 0}}

\* C36: while the view lives, the callback objects registered with the core
\* are exactly the entries of the _notifications map, each once and one per
\* observer; an observer that receives an event has an entry in the map, so
\* none receives an event after its unregister_notification returned; after
\* the view was torn down no callback object is registered.
C36_RegisteredAreEntries ==
    /\ ~torn =>
        /\ Range(registered) = MapEntries
        /\ Len(registered) = Cardinality(MapEntries)
    /\ \A c \in received : notifications[owner[c]] # 0
    /\ torn => registered = <<>>

\* C36, the part that holds: the same, as long as no observer was passed to
\* register_notification while it had an entry in the map.
C36_WhenRegisteredOnce ==
    ~overwrote =>
        /\ ~torn =>
            /\ Range(registered) = MapEntries
            /\ Len(registered) = Cardinality(MapEntries)
        /\ \A c \in received : notifications[owner[c]] # 0
        /\ torn => registered = <<>>

\* An observer was registered twice and unregistered; the callback object
\* of its first registration is still registered and receives an event.
C36_Orphan ==
    /\ owner[1] # 0 /\ owner[2] = owner[1] /\ notifications[owner[1]] = 0
    /\ registered = <<1>> /\ 1 \in received

\* C37: layout_and_wait returns only when the layout of its graph is
\* complete, and when the layout is complete it eventually returns, whether
\* the completion callback runs before the caller takes the lock of the
\* condition or after the caller went to sleep in wait(): a caller is never
\* left asleep with the layout complete and the callback over.
C37_LayoutAndWait ==
    /\ [](\A g \in Graphs : caller[g] = "returned" => layoutComplete[g])
    /\ [](\A g \in Graphs : (caller[g] = "waiting" /\ layoutComplete[g]) =>
                                layouter[g] \in {"callback", "locked"})
    /\ \A g \in Graphs : layoutComplete[g] ~> (caller[g] = "returned")

\* One caller slept in wait() and was woken by the callback; the callback
\* of another graph is over before its caller has taken the lock.
C37_Witness ==
    \E g, h \in Graphs :
        /\ caller[g] = "woken" /\ layouter[g] = "finished" /\ layoutComplete[g]
        /\ caller[h] = "started" /\ layouter[h] = "finished" /\ layoutComplete[h]
====
